---- MODULE Spec2Model ----
(***************************************************************************)
(* Model of the bbposexp position / portfolio analysis engine              *)
(* (analyzer.py), its suggestion generator (ai_analysis.py) and the        *)
(* configuration predicate they read (config.py).                          *)
(*                                                                         *)
(* Python values are modelled as follows.                                  *)
(*   str    a sequence of one-character strings, <<"B","T","C">>           *)
(*   float  an exact rational <<n, d>> in lowest terms with d > 0          *)
(*   dict   a function whose DOMAIN is the set of keys present             *)
(*   raw field value   [str |-> chars] or [num |-> rational]               *)
(*   Optional[list]    None or [list |-> sequence]                         *)
(*   Optional[str]     None or [str |-> chars]                             *)
(*   a raised exception   [raised |-> name of the exception class]          *)
(***************************************************************************)
EXTENDS Integers, Sequences, FiniteSets, TLC

VARIABLES
    symbol,         \* argument of a categorize_symbol call
    cluster,        \* its return value, NotRun before the call
    position,       \* argument of an analyze_position call (a raw dict)
    analyzed,       \* its outcome, NotRun before the call
    analyzed_orders,\* outcome of an analyze_orders(raw_orders) call
    raw_positions,  \* first argument of analyze_positions
    raw_orders,     \* second argument of analyze_positions (None allowed)
    analysis,       \* outcome of analyze_positions, NotRun before the call
    openai_key,     \* Config.OPENAI_API_KEY
    llm,            \* what the OpenAI HTTP call did during analyze_with_ai
    requests,       \* number of HTTP requests analyze_with_ai has posted
    suggestions,    \* outcome of analyze_with_ai, NotRun before the call
    exchange,       \* what Bybit answers to the successive signed requests
    fetched,        \* the bybit_api call made and its outcome, NotRun before
    bybit_key,      \* Config.BYBIT_API_KEY
    bybit_secret,   \* Config.BYBIT_API_SECRET
    request,        \* the request a front end is serving or served last
    answer,         \* what the front end answered to it
    served,         \* number of requests the front ends have answered
    chat_id,        \* TelegramBot.chat_id, the cached chat
    chat_file,      \* what chat_id.txt holds, None while there is no file
    updates,        \* the /start commands and button presses handled so far
    outbox,         \* what the bot has done towards Telegram, in order
    ws              \* the order stream: post_init, the socket, the event loop

api_vars == <<exchange, fetched>>
bot_vars == <<chat_id, chat_file, updates, outbox, ws>>
front_vars == <<bybit_key, bybit_secret, request, answer, served, bot_vars>>

vars == <<symbol, cluster, position, analyzed, analyzed_orders, raw_positions,
          raw_orders, analysis, openai_key, llm, requests, suggestions,
          exchange, fetched, bybit_key, bybit_secret, request, answer, served,
          chat_id, chat_file, updates, outbox, ws>>

\* markers: a call not made yet, Python's None, a raised exception
NotRun == [notrun |-> TRUE]
None == [none |-> TRUE]
Raise(e) == [raised |-> e]

(***************************************************************************)
(* Bounds of the model.                                                    *)
(***************************************************************************)
MaxFragments == 2
MaxPositions == 3
MaxOrders == 1
MaxReply == 5
MaxUrgentPositions == 4
MaxPages == 2
MaxRequests == 2

(***************************************************************************)
(* float: exact rationals.                                                 *)
(***************************************************************************)
Abs(n) == IF n < 0 THEN -n ELSE n

RECURSIVE GCD(_, _)
GCD(a, b) == IF b = 0 THEN a ELSE GCD(b, a % b)

Rat(n, d) ==
    LET s == IF d < 0 THEN -1 ELSE 1
        g == GCD(Abs(n), Abs(d))
    IN  <<(s * n) \div g, (s * d) \div g>>

Zero == <<0, 1>>
RInt(n) == <<n, 1>>
RAdd(a, b) == Rat(a[1] * b[2] + b[1] * a[2], a[2] * b[2])
RSub(a, b) == Rat(a[1] * b[2] - b[1] * a[2], a[2] * b[2])
RMul(a, b) == Rat(a[1] * b[1], a[2] * b[2])
RDiv(a, b) == Rat(a[1] * b[2], a[2] * b[1])
RAbs(a) == <<Abs(a[1]), a[2]>>
RLt(a, b) == a[1] * b[2] < b[1] * a[2]
RLe(a, b) == a[1] * b[2] <= b[1] * a[2]
RGt(a, b) == RLt(b, a)

RECURSIVE RSum(_)
RSum(s) == IF s = <<>> THEN Zero ELSE RAdd(s[1], RSum(Tail(s)))

(***************************************************************************)
(* str: upper(), lower(), the in substring test.                         *)
(***************************************************************************)
LowerLetters == <<"a","b","c","d","e","f","g","h","i","j","k","l","m",
                  "n","o","p","q","r","s","t","u","v","w","x","y","z">>
UpperLetters == <<"A","B","C","D","E","F","G","H","I","J","K","L","M",
                  "N","O","P","Q","R","S","T","U","V","W","X","Y","Z">>

UpperChar(c) ==
    IF \E i \in 1..26 : LowerLetters[i] = c
    THEN UpperLetters[CHOOSE i \in 1..26 : LowerLetters[i] = c]
    ELSE c

LowerChar(c) ==
    IF \E i \in 1..26 : UpperLetters[i] = c
    THEN LowerLetters[CHOOSE i \in 1..26 : UpperLetters[i] = c]
    ELSE c

StrUpper(s) == [i \in 1..Len(s) |-> UpperChar(s[i])]
StrLower(s) == [i \in 1..Len(s) |-> LowerChar(s[i])]

Contains(s, kw) ==
    \E i \in 0..(Len(s) - Len(kw)) : SubSeq(s, i + 1, i + Len(kw)) = kw

(***************************************************************************)
(* analyzer.py: SYMBOL_CLUSTERS and categorize_symbol.                     *)
(***************************************************************************)
SYMBOL_CLUSTERS ==
    << [cluster |-> "BTC", keywords |-> << <<"B","T","C">> >>],
       [cluster |-> "ETH", keywords |-> << <<"E","T","H">> >>],
       [cluster |-> "L2",
        keywords |-> << <<"A","R","B">>, <<"O","P">>,
                        <<"M","A","T","I","C">>, <<"A","V","A","X">>,
                        <<"S","T","R","K">>, <<"M","E","T","I","S">>,
                        <<"I","M","X">>, <<"M","A","N","T","A">> >>],
       [cluster |-> "MEME",
        keywords |-> << <<"D","O","G","E">>, <<"S","H","I","B">>,
                        <<"P","E","P","E">>, <<"W","I","F">>,
                        <<"B","O","N","K">>, <<"F","L","O","K","I">>,
                        <<"B","R","E","T","T">> >>],
       [cluster |-> "AI",
        keywords |-> << <<"A","G","I","X">>, <<"F","E","T">>,
                        <<"R","N","D","R">>, <<"G","R","T">>,
                        <<"O","C","E","A","N">>, <<"N","M","R">>,
                        <<"T","A","O">> >>] >>

\* keyword in symbol_upper for some keyword of the i-th table entry
ClusterMatches(i, symbol_upper) ==
    \E k \in 1..Len(SYMBOL_CLUSTERS[i].keywords) :
        Contains(symbol_upper, SYMBOL_CLUSTERS[i].keywords[k])

\* categorize_symbol without the upper() call
categorize_symbol_case_sensitive(sym) ==
    LET hits == {i \in 1..Len(SYMBOL_CLUSTERS) : ClusterMatches(i, sym)}
    IN  IF hits = {} THEN "OTHER"
        ELSE SYMBOL_CLUSTERS[CHOOSE i \in hits : \A j \in hits : i <= j].cluster

categorize_symbol(sym) ==
    LET symbol_upper == StrUpper(sym)
        hits == {i \in 1..Len(SYMBOL_CLUSTERS) : ClusterMatches(i, symbol_upper)}
    IN  IF hits = {} THEN "OTHER"
        ELSE SYMBOL_CLUSTERS[CHOOSE i \in hits : \A j \in hits : i <= j].cluster

(***************************************************************************)
(* Raw field values, dict.get and float().                                 *)
(***************************************************************************)
Str(s) == [str |-> s]
Num(r) == [num |-> r]
IsStr(v) == "str" \in DOMAIN v
IsNum(v) == "num" \in DOMAIN v

ValueError == Raise("ValueError")

\* d.get(k, default)
Get(d, k, default) == IF k \in DOMAIN d THEN d[k] ELSE default

\* bool(d.get(k)): an absent key gives None, '' and 0 are falsy
Truthy(d, k) ==
    /\ k \in DOMAIN d
    /\ IF IsStr(d[k]) THEN d[k].str # <<>> ELSE d[k].num # Zero

Digits == <<"0","1","2","3","4","5","6","7","8","9">>
IsDigit(c) == \E i \in 1..10 : Digits[i] = c
DigitVal(c) == (CHOOSE i \in 1..10 : Digits[i] = c) - 1

RECURSIVE Pow10(_)
Pow10(k) == IF k = 0 THEN 1 ELSE 10 * Pow10(k - 1)

RECURSIVE DigitsVal(_)
DigitsVal(s) ==
    IF s = <<>> THEN 0
    ELSE 10 * DigitsVal(SubSeq(s, 1, Len(s) - 1)) + DigitVal(s[Len(s)])

Unsigned(s) ==
    IF s # <<>> /\ s[1] \in {"-", "+"} THEN Tail(s) ELSE s

\* the decimal literals float() accepts: [sign] digits [. digits] | [sign] . digits
IsFloatLiteral(s) ==
    LET u == Unsigned(s)
        dots == {i \in 1..Len(u) : u[i] = "."}
    IN  /\ Cardinality(dots) <= 1
        /\ \A i \in (1..Len(u)) \ dots : IsDigit(u[i])
        /\ Len(u) > Cardinality(dots)

LiteralValue(s) ==
    LET u == Unsigned(s)
        dots == {i \in 1..Len(u) : u[i] = "."}
        dot == IF dots = {} THEN Len(u) + 1 ELSE CHOOSE i \in dots : TRUE
        int_part == SubSeq(u, 1, dot - 1)
        frac_part == SubSeq(u, dot + 1, Len(u))
        mag == Rat(DigitsVal(int_part \o frac_part), Pow10(Len(frac_part)))
    IN  IF s[1] = "-" THEN <<-mag[1], mag[2]>> ELSE mag

\* float(v) raises ValueError for a string that is no number
FloatRaises(v) == IsStr(v) /\ ~IsFloatLiteral(v.str)

\* float(v) where it returns
Float(v) == IF IsNum(v) THEN v.num ELSE LiteralValue(v.str)

(***************************************************************************)
(* analyzer.py: calculate_leverage_risk, analyze_position, analyze_orders. *)
(***************************************************************************)
\* calculate_leverage_risk with the two comparisons exchanged (<= 5, < 10)
calculate_leverage_risk_shifted(leverage) ==
    IF RLe(leverage, RInt(5)) THEN "safe"
    ELSE IF RLt(leverage, RInt(10)) THEN "medium"
    ELSE "high"

calculate_leverage_risk(leverage) ==
    IF RLt(leverage, RInt(5)) THEN "safe"
    ELSE IF RLe(leverage, RInt(10)) THEN "medium"
    ELSE "high"

\* analyze_position's distance with 0 in the else branch
liquidation_distance_else_zero(mark_price, liq_price) ==
    IF RGt(liq_price, Zero) /\ RGt(mark_price, Zero)
    THEN RMul(RDiv(RAbs(RSub(mark_price, liq_price)), mark_price), RInt(100))
    ELSE Zero

\* the liquidation distance branch of analyze_position
liquidation_distance(mark_price, liq_price) ==
    IF RGt(liq_price, Zero) /\ RGt(mark_price, Zero)
    THEN RMul(RDiv(RAbs(RSub(mark_price, liq_price)), mark_price), RInt(100))
    ELSE RInt(100)

\* liq_price = float(position.get('liqPrice', 0)) if position.get('liqPrice') else 0
liq_price_raises(pos) ==
    Truthy(pos, "liqPrice") /\ FloatRaises(Get(pos, "liqPrice", Num(Zero)))

parse_liq_price(pos) ==
    IF Truthy(pos, "liqPrice") THEN Float(Get(pos, "liqPrice", Num(Zero)))
    ELSE Zero

\* the default of position.get('leverage', 1)
DefaultLeverage == 1

\* float(position.get(key, 0)) for every key
parse_field_default_zero(pos, key, default) ==
    Float(Get(pos, key, Num(Zero)))

\* float(position.get(key, default)) where it returns
parse_field(pos, key, default) ==
    Float(Get(pos, key, Num(RInt(default))))

\* some float() call of analyze_position raises
analyze_position_raises(pos) ==
    \/ FloatRaises(Get(pos, "size", Num(Zero)))
    \/ FloatRaises(Get(pos, "avgPrice", Num(Zero)))
    \/ FloatRaises(Get(pos, "markPrice", Num(Zero)))
    \/ liq_price_raises(pos)
    \/ FloatRaises(Get(pos, "leverage", Num(RInt(DefaultLeverage))))
    \/ FloatRaises(Get(pos, "unrealisedPnl", Num(Zero)))

analyze_position(pos) ==
    LET sym == Get(pos, "symbol", Str(<<>>)).str
        side == StrLower(Get(pos, "side", Str(<<>>)).str)
        size == parse_field(pos, "size", 0)
        entry_price == parse_field(pos, "avgPrice", 0)
        mark_price == parse_field(pos, "markPrice", 0)
        liq_price == parse_liq_price(pos)
        leverage == parse_field(pos, "leverage", DefaultLeverage)
        unrealized_pnl == parse_field(pos, "unrealisedPnl", 0)
    IN  IF analyze_position_raises(pos) THEN ValueError
        ELSE [symbol |-> sym,
              side |-> side,
              size |-> size,
              entry_price |-> entry_price,
              mark_price |-> mark_price,
              liq_price |-> liq_price,
              leverage |-> leverage,
              unrealized_pnl |-> unrealized_pnl,
              exposure_usdt |-> RAbs(RMul(size, mark_price)),
              liquidation_distance_pct |->
                  liquidation_distance(mark_price, liq_price),
              pnl_status |->
                  IF RGt(unrealized_pnl, Zero) THEN "profit" ELSE "loss",
              leverage_risk |-> calculate_leverage_risk(leverage),
              cluster |-> categorize_symbol(sym)]

analyze_order(order) ==
    LET price == parse_field(order, "price", 0)
        qty == parse_field(order, "qty", 0)
    IN  [symbol |-> Get(order, "symbol", Str(<<>>)).str,
         side |-> StrLower(Get(order, "side", Str(<<>>)).str),
         type |-> StrLower(Get(order, "orderType", Str(<<>>)).str),
         price |-> price,
         qty |-> qty,
         order_id |-> Get(order, "orderId", Str(<<>>)).str]

\* some float() call of analyze_orders raises
analyze_orders_raises(orders) ==
    \E i \in 1..Len(orders) :
        \/ FloatRaises(Get(orders[i], "price", Num(Zero)))
        \/ FloatRaises(Get(orders[i], "qty", Num(Zero)))

analyze_orders(orders) ==
    IF analyze_orders_raises(orders) THEN ValueError
    ELSE [i \in 1..Len(orders) |-> analyze_order(orders[i])]

(***************************************************************************)
(* analyzer.py: analyze_portfolio and analyze_positions.                   *)
(***************************************************************************)
s_buy == <<"b","u","y">>
s_sell == <<"s","e","l","l">>

\* the sum without its if clause: every position counts for every side
RECURSIVE side_exposure_all(_, _)
side_exposure_all(positions, side) ==
    IF positions = <<>> THEN Zero
    ELSE RAdd(positions[1].exposure_usdt,
              side_exposure_all(Tail(positions), side))

\* sum(pos['exposure_usdt'] for pos in positions if pos['side'] == side)
RECURSIVE side_exposure(_, _)
side_exposure(positions, side) ==
    IF positions = <<>> THEN Zero
    ELSE RAdd(IF positions[1].side = side
              THEN positions[1].exposure_usdt ELSE Zero,
              side_exposure(Tail(positions), side))

\* the thresholds 0.6 and 0.4 of the bias test
LongBias == Rat(6, 10)
ShortBias == Rat(4, 10)

\* portfolio_bias comparing with >= and <= in place of > and <
portfolio_bias_inclusive(total_long_exposure, total_exposure) ==
    IF RGt(total_exposure, Zero)
    THEN LET long_pct == RDiv(total_long_exposure, total_exposure)
         IN  IF RLe(LongBias, long_pct) THEN "long"
             ELSE IF RLe(long_pct, ShortBias) THEN "short"
             ELSE "neutral"
    ELSE "neutral"

portfolio_bias(total_long_exposure, total_exposure) ==
    IF RGt(total_exposure, Zero)
    THEN LET long_pct == RDiv(total_long_exposure, total_exposure)
         IN  IF RGt(long_pct, LongBias) THEN "long"
             ELSE IF RLt(long_pct, ShortBias) THEN "short"
             ELSE "neutral"
    ELSE "neutral"

\* cluster_exposure: a dict in insertion order, as a sequence of <<key, value>>
RECURSIVE cluster_exposure(_, _)
cluster_exposure(positions, acc) ==
    IF positions = <<>> THEN acc
    ELSE LET pos == positions[1]
             at == {i \in 1..Len(acc) : acc[i][1] = pos.cluster}
             next == IF at = {}
                     THEN Append(acc, <<pos.cluster, RAdd(Zero, pos.exposure_usdt)>>)
                     ELSE [i \in 1..Len(acc) |->
                              IF i \in at
                              THEN <<acc[i][1], RAdd(acc[i][2], pos.exposure_usdt)>>
                              ELSE acc[i]]
         IN  cluster_exposure(Tail(positions), next)

cluster_distribution(positions, total_exposure) ==
    IF RGt(total_exposure, Zero)
    THEN LET ce == cluster_exposure(positions, <<>>)
         IN  [i \in 1..Len(ce) |->
                 <<ce[i][1], RMul(RDiv(ce[i][2], total_exposure), RInt(100))>>]
    ELSE <<>>

\* risk_score = (100 / pos['liquidation_distance_pct']) * pos['leverage']
risk_score(pos) ==
    RMul(RDiv(RInt(100), pos.liquidation_distance_pct), pos.leverage)

\* the scan with risk_score >= highest_risk_score: the last maximum wins
RECURSIVE highest_risk_last(_, _)
highest_risk_last(positions, best) ==
    IF positions = <<>> THEN best
    ELSE LET pos == positions[1]
             next == IF /\ RGt(pos.liquidation_distance_pct, Zero)
                        /\ RLe(best.score, risk_score(pos))
                     THEN [position |-> pos, score |-> risk_score(pos)]
                     ELSE best
         IN  highest_risk_last(Tail(positions), next)

\* the scan for the highest risk position, from the state best
RECURSIVE highest_risk(_, _)
highest_risk(positions, best) ==
    IF positions = <<>> THEN best
    ELSE LET pos == positions[1]
             next == IF /\ RGt(pos.liquidation_distance_pct, Zero)
                        /\ RGt(risk_score(pos), best.score)
                     THEN [position |-> pos, score |-> risk_score(pos)]
                     ELSE best
         IN  highest_risk(Tail(positions), next)

\* the record returned when there are no positions and no orders
EmptyAnalysis ==
    [portfolio |-> [total_long_exposure |-> Zero,
                    total_short_exposure |-> Zero,
                    net_exposure |-> Zero,
                    bias |-> "neutral",
                    clusters |-> <<>>,
                    total_positions |-> 0,
                    total_orders |-> 0,
                    total_unrealized_pnl |-> Zero],
     positions |-> <<>>,
     orders |-> <<>>,
     risks |-> [highest_risk_position |-> None,
                high_leverage_count |-> 0,
                close_liquidation_count |-> 0,
                total_risk_score |-> Zero]]

\* the threshold of close_liquidation_positions
CloseLiquidationPct == 10

List(l) == [list |-> l]

analyze_portfolio(positions, orders_arg) ==
    LET orders == IF orders_arg = None THEN <<>> ELSE orders_arg.list
        total_long_exposure == side_exposure(positions, s_buy)
        total_short_exposure == side_exposure(positions, s_sell)
        total_exposure == RAdd(total_long_exposure, total_short_exposure)
        high_leverage_positions ==
            SelectSeq(positions, LAMBDA pos : pos.leverage_risk = "high")
        close_liquidation_positions ==
            SelectSeq(positions, LAMBDA pos :
                RLt(pos.liquidation_distance_pct, RInt(CloseLiquidationPct)))
        best == highest_risk(positions, [position |-> None, score |-> Zero])
    IN  IF positions = <<>> /\ orders = <<>> THEN EmptyAnalysis
        ELSE
        [portfolio |->
            [total_long_exposure |-> total_long_exposure,
             total_short_exposure |-> total_short_exposure,
             net_exposure |-> RSub(total_long_exposure, total_short_exposure),
             bias |-> portfolio_bias(total_long_exposure, total_exposure),
             clusters |-> cluster_distribution(positions, total_exposure),
             total_positions |-> Len(positions),
             total_orders |-> Len(orders),
             total_unrealized_pnl |->
                 RSum([i \in 1..Len(positions) |-> positions[i].unrealized_pnl])],
         positions |-> positions,
         orders |-> orders,
         risks |->
            [highest_risk_position |-> best.position,
             high_leverage_count |-> Len(high_leverage_positions),
             close_liquidation_count |-> Len(close_liquidation_positions),
             total_risk_score |-> best.score]]

\* analyze_positions calling analyze_orders(raw_orders) without if raw_orders
analyze_positions_unguarded(raw_pos, raw_ord) ==
    IF \E i \in 1..Len(raw_pos) : analyze_position_raises(raw_pos[i])
    THEN ValueError
    ELSE IF raw_ord = None THEN Raise("TypeError")
    ELSE IF analyze_orders_raises(raw_ord.list) THEN ValueError
    ELSE analyze_portfolio(
             [i \in 1..Len(raw_pos) |-> analyze_position(raw_pos[i])],
             List(analyze_orders(raw_ord.list)))

\* analyze_positions calling analyze_portfolio(analyzed_positions) only
analyze_positions_without_orders(raw_pos, raw_ord) ==
    LET truthy_orders == raw_ord # None /\ raw_ord.list # <<>>
    IN  IF \E i \in 1..Len(raw_pos) : analyze_position_raises(raw_pos[i])
        THEN ValueError
        ELSE IF truthy_orders /\ analyze_orders_raises(raw_ord.list)
        THEN ValueError
        ELSE analyze_portfolio(
                 [i \in 1..Len(raw_pos) |-> analyze_position(raw_pos[i])], None)

analyze_positions(raw_pos, raw_ord) ==
    LET truthy_orders == raw_ord # None /\ raw_ord.list # <<>>
    IN  IF \E i \in 1..Len(raw_pos) : analyze_position_raises(raw_pos[i])
        THEN ValueError
        ELSE IF truthy_orders /\ analyze_orders_raises(raw_ord.list)
        THEN ValueError
        ELSE analyze_portfolio(
                 [i \in 1..Len(raw_pos) |-> analyze_position(raw_pos[i])],
                 List(IF truthy_orders THEN analyze_orders(raw_ord.list)
                      ELSE <<>>))

(***************************************************************************)
(* ai_analysis.py: _fallback_analysis.  A suggestion is the f-string that  *)
(* builds it: its template and the formatted values of its fields.         *)
(***************************************************************************)
\* format(x, '.<places>f') of x >= 0: the count of 10^-places units,
\* rounded to nearest, ties to even
Fixed(x, places) ==
    LET n == x[1] * Pow10(places)
        q == n \div x[2]
        r == n - q * x[2]
        up == 2 * r > x[2] \/ (2 * r = x[2] /\ q % 2 = 1)
    IN  [units |-> IF up THEN q + 1 ELSE q, places |-> places]

Take(s, n) == SubSeq(s, 1, IF Len(s) < n THEN Len(s) ELSE n)

\* the slice [:4] applied to each list that is returned
SuggestionCap == 4
\* the slice [:2] of high_lev_positions
HighLeverageCap == 2
\* the leverage above which a position is reported
HighLeverage == 10
\* clusters above this percentage are reported
ClusterConcentrationPct == 40
\* the PnL beyond which a position counts as profitable / losing
PnlThreshold == 100
\* more high-leverage positions than this trigger the general advice
HighLeverageCountLimit == 3

close_liq_suggestion(pos) ==
    [template |-> "Add collateral or reduce {symbol} {side} position ({pct:.2f}% from liquidation)",
     symbol |-> pos.symbol,
     side |-> StrUpper(pos.side),
     pct |-> Fixed(pos.liquidation_distance_pct, 2)]

high_lev_suggestion(pos) ==
    [template |-> "Reduce leverage on {symbol} (currently {leverage:.1f}x)",
     symbol |-> pos.symbol,
     leverage |-> Fixed(pos.leverage, 1)]

\* max(portfolio['clusters'].items(), key=lambda x: x[1]): the first maximum
max_cluster(clusters) ==
    clusters[CHOOSE i \in 1..Len(clusters) :
                /\ \A j \in 1..Len(clusters) : RLe(clusters[j][2], clusters[i][2])
                /\ \A j \in 1..(i - 1) : RLt(clusters[j][2], clusters[i][2])]

fallback_urgent(positions) ==
    LET close_liq_positions ==
            SelectSeq(positions, LAMBDA p :
                RLt(p.liquidation_distance_pct, RInt(CloseLiquidationPct)))
        high_lev_positions ==
            SelectSeq(positions, LAMBDA p : RGt(p.leverage, RInt(HighLeverage)))
        top == Take(high_lev_positions, HighLeverageCap)
    IN  [i \in 1..Len(close_liq_positions) |->
            close_liq_suggestion(close_liq_positions[i])]
        \o [i \in 1..Len(top) |-> high_lev_suggestion(top[i])]

fallback_recommended(portfolio, positions) ==
    LET profitable_positions ==
            SelectSeq(positions, LAMBDA p :
                p.pnl_status = "profit" /\ RGt(p.unrealized_pnl, RInt(PnlThreshold)))
        mc == max_cluster(portfolio.clusters)
    IN  (IF portfolio.clusters # <<>> /\ RGt(mc[2], RInt(ClusterConcentrationPct))
         THEN << [template |-> "Diversify away from {cluster} cluster ({pct:.1f}% of portfolio)",
                  cluster |-> mc[1], pct |-> Fixed(mc[2], 1)] >>
         ELSE <<>>)
        \o (IF profitable_positions # <<>>
            THEN << [template |-> "Consider taking partial profits on {n} profitable position(s)",
                     n |-> Len(profitable_positions)] >>
            ELSE <<>>)
        \o (IF portfolio.bias \in {"long", "short"}
            THEN << [template |-> "Portfolio is heavily {bias} biased - consider {opposite} hedges",
                     bias |-> portfolio.bias,
                     opposite |-> IF portfolio.bias = "long" THEN "short" ELSE "long"] >>
            ELSE <<>>)

fallback_optional(positions, risks) ==
    LET losing_positions ==
            SelectSeq(positions, LAMBDA p :
                p.pnl_status = "loss" /\ RLt(p.unrealized_pnl, RInt(-PnlThreshold)))
    IN  (IF \E i \in 1..Len(positions) :
                positions[i].leverage_risk \in {"medium", "high"}
         THEN << [template |-> "Set tighter stop losses on high-leverage positions"] >>
         ELSE <<>>)
        \o (IF losing_positions # <<>>
            THEN << [template |-> "Review {n} losing position(s) for potential exit",
                     n |-> Len(losing_positions)] >>
            ELSE <<>>)
        \o (IF risks.high_leverage_count > HighLeverageCountLimit
            THEN << [template |-> "Consider reducing overall portfolio leverage"] >>
            ELSE <<>>)

\* _fallback_analysis returning the three lists without the [:4] slices
fallback_analysis_uncapped(analysis_data) ==
    LET urgent == fallback_urgent(analysis_data.positions)
        recommended ==
            fallback_recommended(analysis_data.portfolio, analysis_data.positions)
        optional == fallback_optional(analysis_data.positions, analysis_data.risks)
    IN  [urgent |-> urgent,
         recommended |-> recommended,
         optional |->
            IF urgent = <<>> /\ recommended = <<>> /\ optional = <<>>
            THEN << [template |-> "Portfolio looks relatively balanced - continue monitoring"] >>
            ELSE optional]

fallback_analysis(analysis_data) ==
    LET urgent == fallback_urgent(analysis_data.positions)
        recommended ==
            fallback_recommended(analysis_data.portfolio, analysis_data.positions)
        optional == fallback_optional(analysis_data.positions, analysis_data.risks)
    IN  [urgent |-> Take(urgent, SuggestionCap),
         recommended |-> Take(recommended, SuggestionCap),
         optional |->
            Take(IF urgent = <<>> /\ recommended = <<>> /\ optional = <<>>
                 THEN << [template |-> "Portfolio looks relatively balanced - continue monitoring"] >>
                 ELSE optional,
                 SuggestionCap)]

(***************************************************************************)
(* config.py: Config.has_openai.                                           *)
(***************************************************************************)
IsSpace(c) == c \in {" ", "\t", "\n"}

\* str.strip()
RECURSIVE LStrip(_)
LStrip(s) == IF s # <<>> /\ IsSpace(s[1]) THEN LStrip(Tail(s)) ELSE s

RECURSIVE RStrip(_)
RStrip(s) ==
    IF s # <<>> /\ IsSpace(s[Len(s)]) THEN RStrip(SubSeq(s, 1, Len(s) - 1)) ELSE s

Strip(s) == RStrip(LStrip(s))

\* bool(cls.OPENAI_API_KEY and cls.OPENAI_API_KEY.strip())
has_openai(key) == key # None /\ key.str # <<>> /\ Strip(key.str) # <<>>

(***************************************************************************)
(* ai_analysis.py: _openai_analysis and analyze_with_ai.                   *)
(*                                                                         *)
(* The reply's message content is a sequence of tokens: the code fence,    *)
(* whitespace, a run of other text, or the text of one JSON document.      *)
(* The fenced-json marker is the fence followed by the text json.          *)
(***************************************************************************)
Fence == [tok |-> "fence"]
JsonTag == [tok |-> "json"]
Ws == [tok |-> " "]
Prose == [tok |-> "text"]
Json(v) == [json |-> v]

\* content.split(fence + 'json')[1]: what follows the first marker, up to the next
AfterJsonFence(content) ==
    LET at == {i \in 1..(Len(content) - 1) :
                  content[i] = Fence /\ content[i + 1] = JsonTag}
        first == CHOOSE i \in at : \A j \in at : i <= j
        later == {j \in at : j > first}
        stop == IF later = {} THEN Len(content) + 1
                ELSE CHOOSE j \in later : \A k \in later : j <= k
    IN  SubSeq(content, first + 2, stop - 1)

\* content.split(fence)[n], n = 0 or 1
FencePiece(content, n) ==
    LET at == {i \in 1..Len(content) : content[i] = Fence}
        nth(k) == CHOOSE i \in at : Cardinality({j \in at : j < i}) = k - 1
        from == IF n = 0 THEN 1 ELSE nth(n) + 1
        to == IF Cardinality(at) > n THEN nth(n + 1) - 1 ELSE Len(content)
    IN  SubSeq(content, from, to)

\* .strip() of a piece
RECURSIVE StripTokens(_)
StripTokens(c) ==
    IF c # <<>> /\ c[1] = Ws THEN StripTokens(Tail(c))
    ELSE IF c # <<>> /\ c[Len(c)] = Ws THEN StripTokens(SubSeq(c, 1, Len(c) - 1))
    ELSE c

\* the text handed to json.loads
extract_json(content) ==
    IF \E i \in 1..(Len(content) - 1) :
           content[i] = Fence /\ content[i + 1] = JsonTag
    THEN StripTokens(FencePiece(AfterJsonFence(content), 0))
    ELSE IF \E i \in 1..Len(content) : content[i] = Fence
    THEN StripTokens(FencePiece(FencePiece(content, 1), 0))
    ELSE content

\* json.loads accepts one document with whitespace around it
JsonLoads(text) ==
    LET body == StripTokens(text)
    IN  IF Len(body) = 1 /\ "json" \in DOMAIN body[1]
        THEN [returned |-> body[1].json]
        ELSE Raise("JSONDecodeError")

\* what the except Exception clause of analyze_with_ai can catch here
OpenAiExceptions ==
    {"RequestException", "HTTPError", "JSONDecodeError", "KeyError", "TypeError"}

\* _openai_analysis(analysis_data) when the HTTP exchange goes as reply says
openai_analysis(analysis_data, reply) ==
    CASE reply.kind = "post_raises" -> Raise("RequestException")
      [] reply.kind = "http_error" -> Raise("HTTPError")
      [] reply.kind = "body_not_json" -> Raise("JSONDecodeError")
      [] reply.kind = "no_content" -> Raise("KeyError")
      [] reply.kind = "content_null" -> Raise("TypeError")
      [] reply.kind = "content" ->
            LET loaded == JsonLoads(extract_json(reply.content))
            IN  IF loaded = Raise("JSONDecodeError")
                THEN [returned |-> fallback_analysis(analysis_data)]
                ELSE loaded

\* analyze_with_ai without the try/except around the OpenAI call
analyze_with_ai_uncaught(analysis_data, key, reply) ==
    IF has_openai(key)
    THEN openai_analysis(analysis_data, reply)
    ELSE [returned |-> fallback_analysis(analysis_data)]

analyze_with_ai(analysis_data, key, reply) ==
    IF has_openai(key)
    THEN LET out == openai_analysis(analysis_data, reply)
         IN  IF out \in {Raise(e) : e \in OpenAiExceptions}
             THEN [returned |-> fallback_analysis(analysis_data)]
             ELSE out
    ELSE [returned |-> fallback_analysis(analysis_data)]

(***************************************************************************)
(* bybit_api.py: signed_request and the fetch functions.                   *)
(*                                                                         *)
(* An exception that carries a message is [raised |-> class, message |->   *)
(* m]; m is the f-string that builds str(e): its text and its fields.      *)
(* The exchange is a script: exchange[k] is what the k-th HTTP request     *)
(* meets, a transport failure, an error status, a body that is no JSON, or *)
(* a JSON body.                                                            *)
(***************************************************************************)
RaiseMsg(cls, msg) == [raised |-> cls, message |-> msg]
Raised(out) == "raised" \in DOMAIN out

s_GET == <<"G","E","T">>
s_POST == <<"P","O","S","T">>
s_USDT == <<"U","S","D","T">>
s_Funding == <<"F","u","n","d","i","n","g">>

\* a request the script no longer answers times out
ReplyAt(replies, k) ==
    IF k <= Len(replies) THEN replies[k] ELSE [kind |-> "network"]

\* raise Exception(f"API request failed: {str(e)}")
RequestFailed(reply) ==
    RaiseMsg("Exception", [text |-> "API request failed: {e}", e |-> reply.kind])

\* signed_request(method, endpoint, params) when the request meets reply
signed_request(method, reply) ==
    IF StrUpper(method) \notin {s_GET, s_POST}
    THEN RaiseMsg("ValueError",
                  [text |-> "Unsupported HTTP method: {method}", method |-> method])
    ELSE CASE reply.kind \in {"network", "http_error"} -> RequestFailed(reply)
           [] reply.kind = "not_json" ->
                \* response.json() raises a RequestException subclass in
                \* requests 2.27 and later, a plain ValueError before
                IF reply.request_exception THEN RequestFailed(reply)
                ELSE RaiseMsg("ValueError", [text |-> "Expecting value"])
           [] reply.kind = "json" ->
                IF Get(reply.data, "retCode", None) # Num(Zero)
                THEN RaiseMsg("Exception",
                         [text |-> "Bybit API error: {retMsg} (code: {retCode})",
                          retMsg |-> Get(reply.data, "retMsg",
                                         Str(<<"U","n","k","n","o","w","n">>)),
                          retCode |-> Get(reply.data, "retCode", None)])
                ELSE [returned |-> reply.data]

\* raise Exception(f"Failed to fetch ...: {str(e)}")
Wrap(context, out) ==
    RaiseMsg("Exception", [text |-> context, e |-> out.message])

\* response.get('result', {}).get('list', []) and .get('nextPageCursor')
ResultList(data) == Get(Get(data, "result", <<>>), "list", <<>>)
HasCursor(data) == Truthy(Get(data, "result", <<>>), "nextPageCursor")

\* the loop with its try inside: a failure after the first page ends the
\* loop and the pages read so far are returned
RECURSIVE fetch_pages_partial(_, _, _)
fetch_pages_partial(replies, k, acc) ==
    LET response == signed_request(s_GET, ReplyAt(replies, k))
        all == acc \o ResultList(response.returned)
    IN  IF Raised(response) THEN (IF k = 1 THEN response ELSE [returned |-> acc])
        ELSE IF ~HasCursor(response.returned) THEN [returned |-> all]
        ELSE fetch_pages_partial(replies, k + 1, all)

\* the while True loop over the pages: request k, extend the list, follow
\* nextPageCursor
RECURSIVE fetch_pages(_, _, _)
fetch_pages(replies, k, acc) ==
    LET response == signed_request(s_GET, ReplyAt(replies, k))
        all == acc \o ResultList(response.returned)
    IN  IF Raised(response) THEN response
        ELSE IF ~HasCursor(response.returned) THEN [returned |-> all]
        ELSE fetch_pages(replies, k + 1, all)

get_positions(replies) ==
    LET out == fetch_pages(replies, 1, <<>>)
        all_positions == out.returned
    IN  IF Raised(out) THEN Wrap("Failed to fetch positions: {e}", out)
        ELSE IF \E i \in 1..Len(all_positions) :
                    FloatRaises(Get(all_positions[i], "size", Num(Zero)))
        THEN Wrap("Failed to fetch positions: {e}",
                  RaiseMsg("ValueError", [text |-> "could not convert string to float"]))
        ELSE [returned |->
                 SelectSeq(all_positions,
                     LAMBDA pos : RGt(Float(Get(pos, "size", Num(Zero))), Zero))]

get_open_orders(replies) ==
    LET out == fetch_pages(replies, 1, <<>>)
    IN  IF Raised(out) THEN Wrap("Failed to fetch open orders: {e}", out)
        ELSE out

get_conditional_orders(replies) ==
    LET out == fetch_pages(replies, 1, <<>>)
    IN  IF Raised(out) THEN Wrap("Failed to fetch conditional orders: {e}", out)
        ELSE out

\* exc.get('execType') != 'Funding'
IsTrade(exc) == Get(exc, "execType", None) # Str(s_Funding)

get_recent_trades(replies) ==
    LET response == signed_request(s_GET, ReplyAt(replies, 1))
    IN  IF Raised(response)
        THEN Wrap("Failed to fetch recent trades: {e}", response)
        ELSE [returned |-> SelectSeq(ResultList(response.returned), IsTrade)]

\* int(v) raises ValueError unless v is a number or an optionally signed
\* run of digits
IntRaises(v) ==
    IsStr(v) /\ \/ Unsigned(v.str) = <<>>
                \/ \E i \in 1..Len(Unsigned(v.str)) : ~IsDigit(Unsigned(v.str)[i])

\* int(v) where it returns (a float is truncated towards zero)
IntOf(v) ==
    IF IsNum(v)
    THEN (IF v.num[1] < 0 THEN -((-v.num[1]) \div v.num[2])
          ELSE v.num[1] \div v.num[2])
    ELSE LiteralValue(v.str)[1]

ExecTime(x) == IntOf(Get(x, "execTime", Num(Zero)))

\* list.sort(key=ExecTime, reverse=True): stable, the larger keys first
RECURSIVE SortByExecTimeDesc(_)
SortByExecTimeDesc(l) ==
    IF l = <<>> THEN <<>>
    ELSE LET sorted == SortByExecTimeDesc(SubSeq(l, 1, Len(l) - 1))
             x == l[Len(l)]
             before == SelectSeq(sorted, LAMBDA y : ExecTime(y) >= ExecTime(x))
             after == SelectSeq(sorted, LAMBDA y : ExecTime(y) < ExecTime(x))
         IN  before \o <<x>> \o after

\* the safety limit on the executions collected by get_todays_trades
TradeSafetyLimit == 1000

\* the loop of get_todays_trades: as fetch_pages, with the safety limit
RECURSIVE fetch_todays_pages(_, _, _)
fetch_todays_pages(replies, k, acc) ==
    LET response == signed_request(s_GET, ReplyAt(replies, k))
        all == acc \o ResultList(response.returned)
    IN  IF Raised(response) THEN response
        ELSE IF ~HasCursor(response.returned) THEN [returned |-> all]
        ELSE IF Len(all) > TradeSafetyLimit THEN [returned |-> all]
        ELSE fetch_todays_pages(replies, k + 1, all)

get_todays_trades(replies) ==
    LET out == fetch_todays_pages(replies, 1, <<>>)
        trades == SelectSeq(out.returned, IsTrade)
    IN  IF Raised(out) THEN Wrap("Failed to fetch today's trades: {e}", out)
        ELSE IF \E i \in 1..Len(trades) :
                    IntRaises(Get(trades[i], "execTime", Num(Zero)))
        THEN Wrap("Failed to fetch today's trades: {e}",
                  RaiseMsg("ValueError", [text |-> "invalid literal for int()"]))
        ELSE [returned |-> SortByExecTimeDesc(trades)]

get_closed_pnl(replies) ==
    LET response == signed_request(s_GET, ReplyAt(replies, 1))
    IN  IF Raised(response) THEN Wrap("Failed to fetch closed PnL: {e}", response)
        ELSE [returned |-> ResultList(response.returned)]

\* the default '0' of the balance fields
ZeroText == Str(<<"0">>)

\* the balance record returned when the account list is empty
EmptyBalance ==
    [totalEquity |-> ZeroText, totalAvailableBalance |-> ZeroText,
     totalMarginBalance |-> ZeroText, totalInitialMargin |-> ZeroText,
     totalMaintenanceMargin |-> ZeroText, coin |-> <<>>]

get_wallet_balance(replies) ==
    LET response == signed_request(s_GET, ReplyAt(replies, 1))
        accounts == ResultList(response.returned)
        account == accounts[1]
        coins == Get(account, "coin", <<>>)
        hits == {i \in 1..Len(coins) : Get(coins[i], "coin", None) = Str(s_USDT)}
        usdt_data == IF hits = {} THEN <<>>
                     ELSE coins[CHOOSE i \in hits : \A j \in hits : i <= j]
    IN  IF Raised(response)
        THEN Wrap("Failed to fetch wallet balance: {e}", response)
        ELSE IF accounts = <<>> THEN [returned |-> EmptyBalance]
        ELSE [returned |->
                [totalEquity |-> Get(account, "totalEquity", ZeroText),
                 totalAvailableBalance |->
                     Get(account, "totalAvailableBalance", ZeroText),
                 totalMarginBalance |-> Get(account, "totalMarginBalance", ZeroText),
                 totalInitialMargin |-> Get(account, "totalInitialMargin", ZeroText),
                 totalMaintenanceMargin |->
                     Get(account, "totalMaintenanceMargin", ZeroText),
                 accountIMRate |-> Get(account, "accountIMRate", ZeroText),
                 accountMMRate |-> Get(account, "accountMMRate", ZeroText),
                 coin_data |-> usdt_data]]

(***************************************************************************)
(* config.py, bot.py, server.py, telegram_bot.py: the front ends.          *)
(*                                                                         *)
(* ex holds what Bybit answers on each endpoint: ex.positions, ex.orders,  *)
(* ex.closed_pnl, ex.balance and ex.executions are scripts of answers.  A  *)
(* handler returns [answer, raised]: what it answered, and the exceptions  *)
(* the exchange fetches and the analysis raised inside it.  A report is    *)
(* kept by its kind and its figures, not by its layout.                    *)
(***************************************************************************)
\* Config.validate(): (is_valid, error_message)
validate(key, secret) ==
    IF key = None \/ key.str = <<>>
    THEN <<FALSE, "BYBIT_API_KEY environment variable is not set">>
    ELSE IF secret = None \/ secret.str = <<>>
    THEN <<FALSE, "BYBIT_API_SECRET environment variable is not set">>
    ELSE IF Strip(key.str) = <<>>
    THEN <<FALSE, "BYBIT_API_KEY is empty">>
    ELSE IF Strip(secret.str) = <<>>
    THEN <<FALSE, "BYBIT_API_SECRET is empty">>
    ELSE <<TRUE, "">>

Done(ans, raised) == [answer |-> ans, raised |-> raised]

\* str(e)
ErrorText(out) ==
    IF "message" \in DOMAIN out THEN out.message ELSE [text |-> out.raised]

\* float(rec.get(k, 0)) raises for one of the keys
RowRaises(rec, keys) == \E k \in keys : FloatRaises(Get(rec, k, Num(Zero)))
AnyRowRaises(l, keys) == \E i \in 1..Len(l) : RowRaises(l[i], keys)

\* sum(float(item.get(k, 0)) for item in l)
SumOf(l, k) == RSum([i \in 1..Len(l) |-> Float(Get(l[i], k, Num(Zero)))])

PositionColumns == {"size", "avgPrice", "markPrice", "unrealisedPnl", "leverage"}

\* what a command did, in order: steps names Config.validate, the bybit_api
\* functions called (each sends at least one request) and the analysis calls
Cli(ans, raised, steps) == [answer |-> ans, raised |-> raised, steps |-> steps]

\* print(f"\n... Configuration Error: {error_msg}"); return 1
ConfigurationError(valid) ==
    Cli([exit |-> 1, printed |-> "configuration_error",
         text |-> [text |-> valid[2]]], <<>>, <<"validate">>)

\* except Exception as e: print(f"\n... Error: {str(e)}"); return 1
CliError(out) == [exit |-> 1, printed |-> "error", text |-> ErrorText(out)]

\* list_positions_command() calling get_positions before Config.validate
list_positions_command_fetch_first(key, secret, ex) ==
    LET valid == validate(key, secret)
        raw_positions_out == get_positions(ex.positions)
        steps == <<"get_positions", "validate">>
    IN  IF Raised(raw_positions_out)
        THEN Cli(CliError(raw_positions_out), <<raw_positions_out>>,
                 <<"get_positions">>)
        ELSE IF ~valid[1]
        THEN Cli([exit |-> 1, printed |-> "configuration_error",
                  text |-> [text |-> valid[2]]], <<>>, steps)
        ELSE IF raw_positions_out.returned = <<>>
        THEN Cli([exit |-> 0, printed |-> "none_found"], <<>>, steps)
        ELSE IF AnyRowRaises(raw_positions_out.returned, PositionColumns)
        THEN Cli(CliError(ValueError), <<>>, steps)
        ELSE Cli([exit |-> 0, printed |-> "table",
                  rows |-> Len(raw_positions_out.returned),
                  total_pnl |-> SumOf(raw_positions_out.returned, "unrealisedPnl")],
                 <<>>, steps)

\* bot.py: list_positions_command()
list_positions_command(key, secret, ex) ==
    LET valid == validate(key, secret)
        raw_positions_out == get_positions(ex.positions)
        steps == <<"validate", "get_positions">>
    IN  IF ~valid[1] THEN ConfigurationError(valid)
        ELSE IF Raised(raw_positions_out)
        THEN Cli(CliError(raw_positions_out), <<raw_positions_out>>, steps)
        ELSE IF raw_positions_out.returned = <<>>
        THEN Cli([exit |-> 0, printed |-> "none_found"], <<>>, steps)
        ELSE IF AnyRowRaises(raw_positions_out.returned, PositionColumns)
        THEN Cli(CliError(ValueError), <<>>, steps)
        ELSE Cli([exit |-> 0, printed |-> "table",
                  rows |-> Len(raw_positions_out.returned),
                  total_pnl |-> SumOf(raw_positions_out.returned, "unrealisedPnl")],
                 <<>>, steps)

\* stop_order_type or order_type in ['Stop', 'StopLimit']
IsStopOrder(order) ==
    \/ Truthy(order, "stopOrderType")
    \/ Get(order, "orderType", Str(<<>>))
           \in {Str(<<"S","t","o","p">>), Str(<<"S","t","o","p","L","i","m","i","t">>)}

\* a row of the orders tables raises in float() or int()
order_row_raises(order) ==
    IF IsStopOrder(order)
    THEN RowRaises(order, {"qty", "triggerPrice", "price"})
    ELSE \/ RowRaises(order, {"qty", "price"})
         \/ "createdTime" \in DOMAIN order /\ IntRaises(order["createdTime"])

\* bot.py: orders_command()
orders_command(key, secret, ex) ==
    LET valid == validate(key, secret)
        all_orders == get_open_orders(ex.orders)
        steps == <<"validate", "get_open_orders">>
    IN  IF ~valid[1] THEN ConfigurationError(valid)
        ELSE IF Raised(all_orders)
        THEN Cli(CliError(all_orders), <<all_orders>>, steps)
        ELSE IF all_orders.returned = <<>>
        THEN Cli([exit |-> 0, printed |-> "none_found"], <<>>, steps)
        ELSE IF \E i \in 1..Len(all_orders.returned) :
                    order_row_raises(all_orders.returned[i])
        THEN Cli(CliError(ValueError), <<>>, steps)
        ELSE Cli([exit |-> 0, printed |-> "table",
                  rows |-> Len(all_orders.returned)], <<>>, steps)

\* bot.py: analyze_command()
analyze_command(key, secret, okey, ex) ==
    LET valid == validate(key, secret)
        raw_positions_out == get_positions(ex.positions)
        analysis_out == analyze_positions(raw_positions_out.returned, None)
        suggestions_out == analyze_with_ai(analysis_out, okey, NotRun)
        steps == <<"validate", "get_positions">>
    IN  IF ~valid[1] THEN ConfigurationError(valid)
        ELSE IF Raised(raw_positions_out)
        THEN Cli(CliError(raw_positions_out), <<raw_positions_out>>, steps)
        ELSE IF raw_positions_out.returned = <<>>
        THEN Cli([exit |-> 0, printed |-> "none_found"], <<>>, steps)
        ELSE IF Raised(analysis_out)
        THEN Cli(CliError(analysis_out), <<analysis_out>>,
                 steps \o <<"analyze_positions">>)
        ELSE Cli([exit |-> 0, printed |-> "report",
                  analysis |-> analysis_out,
                  suggestions |-> suggestions_out.returned], <<>>,
                 steps \o <<"analyze_positions", "analyze_with_ai">>)

s_list == <<"l","i","s","t">>
s_orders == <<"o","r","d","e","r","s">>
s_analyze == <<"a","n","a","l","y","z","e">>
HelpWords == {<<"h","e","l","p">>, <<"-","-","h","e","l","p">>, <<"-","h">>}

\* main() comparing sys.argv[1] as typed
main_case_sensitive(argv, key, secret, okey, ex) ==
    LET command == argv[2]
    IN  IF Len(argv) < 2 THEN Cli([exit |-> 1, printed |-> "usage"], <<>>, <<>>)
        ELSE IF command = s_list THEN list_positions_command(key, secret, ex)
        ELSE IF command = s_orders THEN orders_command(key, secret, ex)
        ELSE IF command = s_analyze THEN analyze_command(key, secret, okey, ex)
        ELSE IF command \in HelpWords
        THEN Cli([exit |-> 0, printed |-> "usage"], <<>>, <<>>)
        ELSE Cli([exit |-> 1, printed |-> "unknown_command"], <<>>, <<>>)

\* bot.py: main(); argv is sys.argv, argv[1] here being the program name
main(argv, key, secret, okey, ex) ==
    LET command == StrLower(argv[2])
    IN  IF Len(argv) < 2 THEN Cli([exit |-> 1, printed |-> "usage"], <<>>, <<>>)
        ELSE IF command = s_list THEN list_positions_command(key, secret, ex)
        ELSE IF command = s_orders THEN orders_command(key, secret, ex)
        ELSE IF command = s_analyze THEN analyze_command(key, secret, okey, ex)
        ELSE IF command \in HelpWords
        THEN Cli([exit |-> 0, printed |-> "usage"], <<>>, <<>>)
        ELSE Cli([exit |-> 1, printed |-> "unknown_command"], <<>>, <<>>)

\* raise HTTPException(status_code=500, detail=str(e))
Http500(out) == [status |-> 500, detail |-> ErrorText(out)]

\* server.py: get_data(), GET /api/data
get_data(okey, ex) ==
    LET balance == get_wallet_balance(ex.balance)
        positions == get_positions(ex.positions)
        orders == get_open_orders(ex.orders)
        closed_pnl_list == get_closed_pnl(ex.closed_pnl)
        realized_pnl == SumOf(closed_pnl_list.returned, "closedPnl")
        unrealized_pnl == SumOf(positions.returned, "unrealisedPnl")
        analysis_data == analyze_positions(positions.returned, List(orders.returned))
        ai_suggestions == analyze_with_ai(analysis_data, okey, NotRun)
    IN  IF Raised(balance) THEN Done(Http500(balance), <<balance>>)
        ELSE IF Raised(positions) THEN Done(Http500(positions), <<positions>>)
        ELSE IF Raised(orders) THEN Done(Http500(orders), <<orders>>)
        ELSE IF Raised(closed_pnl_list)
        THEN Done(Http500(closed_pnl_list), <<closed_pnl_list>>)
        ELSE IF \/ AnyRowRaises(closed_pnl_list.returned, {"closedPnl"})
                \/ AnyRowRaises(positions.returned, {"unrealisedPnl"})
        THEN Done(Http500(ValueError), <<>>)
        ELSE IF Raised(analysis_data)
        THEN Done(Http500(analysis_data), <<analysis_data>>)
        ELSE Done([status |-> 200,
                   body |-> [balance |-> balance.returned,
                             positions |-> positions.returned,
                             orders |-> orders.returned,
                             pnl |-> [realized |-> realized_pnl,
                                      unrealized |-> unrealized_pnl,
                                      total |-> RAdd(realized_pnl, unrealized_pnl),
                                      trade_count |-> Len(closed_pnl_list.returned)],
                             analysis |-> ai_suggestions.returned]], <<>>)

\* one element of the list /api/trades returns
trade_row(item) ==
    [symbol |-> Get(item, "symbol", None),
     side |-> Get(item, "side", None),
     execTime |-> Get(item, "updatedTime", None),
     execPrice |-> Float(Get(item, "avgExitPrice", Num(Zero))),
     execQty |-> Float(Get(item, "qty", Num(Zero))),
     execFee |-> Float(Get(item, "execFee", Num(Zero))),
     closedPnl |-> IF "closedPnl" \in DOMAIN item
                   THEN Num(Float(item["closedPnl"])) ELSE None,
     orderId |-> Get(item, "orderId", None)]

\* server.py: get_trades(), GET /api/trades
get_trades(ex) ==
    LET closed_pnl_list == get_closed_pnl(ex.closed_pnl)
    IN  IF Raised(closed_pnl_list)
        THEN Done(Http500(closed_pnl_list), <<closed_pnl_list>>)
        ELSE IF AnyRowRaises(closed_pnl_list.returned,
                             {"avgExitPrice", "qty", "execFee", "closedPnl"})
        THEN Done(Http500(ValueError), <<>>)
        ELSE Done([status |-> 200,
                   body |-> [i \in 1..Len(closed_pnl_list.returned) |->
                                trade_row(closed_pnl_list.returned[i])]], <<>>)

\* await message.edit_text(f"... Error: {str(e)}", reply_markup=keyboard)
ChatError(out) == [message |-> "error", text |-> ErrorText(out)]

\* an informational line replacing the progress message
Notice(text) == [message |-> "notice", text |-> [text |-> text]]

BalanceColumns ==
    {"totalEquity", "totalAvailableBalance", "totalMarginBalance",
     "totalInitialMargin", "totalMaintenanceMargin"}

\* telegram_bot.py: TelegramBot.show_balance
show_balance(ex) ==
    LET balance == get_wallet_balance(ex.balance)
    IN  IF Raised(balance) THEN Done(ChatError(balance), <<balance>>)
        ELSE IF RowRaises(balance.returned, BalanceColumns)
        THEN Done(ChatError(ValueError), <<>>)
        ELSE Done([message |-> "report", report |-> "balance",
                   total_equity |->
                       Float(Get(balance.returned, "totalEquity", Num(Zero)))],
                  <<>>)

\* telegram_bot.py: TelegramBot.list_positions; bybit_api has no
\* get_tickers, so the inner try always ends with tickers_map = {}
list_positions(ex) ==
    LET positions == get_positions(ex.positions)
        balance == get_wallet_balance(ex.balance)
        with_balance ==
            ~Raised(balance)
            /\ ~RowRaises(balance.returned, {"totalAvailableBalance", "totalEquity"})
    IN  IF Raised(positions) THEN Done(ChatError(positions), <<positions>>)
        ELSE IF positions.returned = <<>>
        THEN Done(Notice("No open positions found."), <<>>)
        ELSE IF AnyRowRaises(positions.returned, PositionColumns)
        THEN Done(ChatError(ValueError), <<>>)
        ELSE Done([message |-> "report", report |-> "positions",
                   rows |-> Len(positions.returned),
                   with_balance |-> with_balance],
                  IF Raised(balance) THEN <<balance>> ELSE <<>>)

\* telegram_bot.py: TelegramBot.list_orders
list_orders(ex) ==
    LET orders == get_open_orders(ex.orders)
    IN  IF Raised(orders) THEN Done(ChatError(orders), <<orders>>)
        ELSE IF orders.returned = <<>>
        THEN Done(Notice("No open orders found."), <<>>)
        ELSE IF AnyRowRaises(orders.returned, {"price", "qty"})
        THEN Done(ChatError(ValueError), <<>>)
        ELSE Done([message |-> "report", report |-> "orders",
                   rows |-> Len(orders.returned)], <<>>)

\* telegram_bot.py: TelegramBot.analyze_positions
telegram_analyze_positions(okey, ex) ==
    LET positions == get_positions(ex.positions)
        orders == get_open_orders(ex.orders)
        analysis_out == analyze_positions(positions.returned, List(orders.returned))
        suggestions_out == analyze_with_ai(analysis_out, okey, NotRun)
    IN  IF Raised(positions) THEN Done(ChatError(positions), <<positions>>)
        ELSE IF Raised(orders) THEN Done(ChatError(orders), <<orders>>)
        ELSE IF positions.returned = <<>> /\ orders.returned = <<>>
        THEN Done(Notice("No open positions or orders to analyze."), <<>>)
        ELSE IF Raised(analysis_out)
        THEN Done(ChatError(analysis_out), <<analysis_out>>)
        ELSE Done([message |-> "report", report |-> "analysis",
                   analysis |-> analysis_out,
                   suggestions |-> suggestions_out.returned], <<>>)

\* the value a failed fetch is replaced by: except Exception: x = []
OrEmpty(out) == IF Raised(out) THEN <<>> ELSE out.returned
Failures(outs) == SelectSeq(outs, Raised)

\* telegram_bot.py: TelegramBot.show_recent_trades, start_time_ms being the
\* clock 24 hours ago; the linear and the option request get the answers of
\* the one executions endpoint
show_recent_trades(ex, start_time_ms) ==
    LET linear == get_recent_trades(ex.executions)
        option == get_recent_trades(ex.executions)
        all_trades == OrEmpty(linear) \o OrEmpty(option)
        trades ==
            SelectSeq(all_trades,
                LAMBDA t :
                    /\ ~FloatRaises(Get(t, "execTime", Num(Zero)))
                    /\ RLe(RInt(start_time_ms),
                           Float(Get(t, "execTime", Num(Zero)))))
        failures == Failures(<<linear, option>>)
    IN  IF trades = <<>>
        THEN Done(Notice("No recent trades found in the last 24h."), failures)
        ELSE IF AnyRowRaises(trades, {"execPrice", "execQty"})
        THEN Done(ChatError(ValueError), failures)
        ELSE Done([message |-> "report", report |-> "trades",
                   rows |-> Len(trades)], failures)

\* telegram_bot.py: TelegramBot.show_daily_pnl
show_daily_pnl(ex) ==
    LET linear == get_closed_pnl(ex.closed_pnl)
        option == get_closed_pnl(ex.closed_pnl)
        positions == get_positions(ex.positions)
        closed_pnl_linear == OrEmpty(linear)
        closed_pnl_option == OrEmpty(option)
        realized_pnl == RAdd(SumOf(closed_pnl_linear, "closedPnl"),
                             SumOf(closed_pnl_option, "closedPnl"))
        unrealized_pnl == SumOf(OrEmpty(positions), "unrealisedPnl")
        failures == Failures(<<linear, option, positions>>)
    IN  IF \/ AnyRowRaises(closed_pnl_linear, {"closedPnl"})
           \/ AnyRowRaises(closed_pnl_option, {"closedPnl"})
           \/ AnyRowRaises(OrEmpty(positions), {"unrealisedPnl"})
        THEN Done(ChatError(ValueError), failures)
        ELSE Done([message |-> "report", report |-> "daily_pnl",
                   realized_pnl |-> realized_pnl,
                   trade_count |-> Len(closed_pnl_linear) + Len(closed_pnl_option),
                   unrealized_pnl |-> unrealized_pnl,
                   total_daily_pnl |-> RAdd(realized_pnl, unrealized_pnl)],
                  failures)

(***************************************************************************)
(* bybit_api.py: the pagination loops, one request at a time.              *)
(*                                                                         *)
(* ex.replies is what the exchange answers to the successive requests;     *)
(* when ex.endless holds it starts again from the first answer after the   *)
(* last.  st holds the locals of the loop: cursor, the list collected      *)
(* in all, the cursor parameter of the request sent last (NotRun before    *)
(* the first), the index of the next answer, and the outcome once the      *)
(* function has returned or raised.                                        *)
(***************************************************************************)
ExchangeReply(ex, k) ==
    IF k <= Len(ex.replies) THEN ex.replies[k]
    ELSE [kind |-> "network"]

NextIndex(ex, k) == IF ex.endless /\ k >= Len(ex.replies) THEN 1 ELSE k + 1

\* a request that never carries a cursor
CursorParam_never(cursor) == None

\* if cursor: params['cursor'] = cursor
CursorParam(cursor) ==
    IF cursor # None /\ cursor.str # <<>> THEN cursor ELSE None

\* the open_positions filter and the return of get_positions
open_positions(all_positions) ==
    IF \E i \in 1..Len(all_positions) :
           FloatRaises(Get(all_positions[i], "size", Num(Zero)))
    THEN Wrap("Failed to fetch positions: {e}",
              RaiseMsg("ValueError", [text |-> "could not convert string to float"]))
    ELSE [returned |->
             SelectSeq(all_positions,
                 LAMBDA pos : RGt(Float(Get(pos, "size", Num(Zero))), Zero))]

\* return all_orders
all_orders_of(all_orders) == [returned |-> all_orders]

\* the Funding filter, the sort and the return of get_todays_trades
todays_trades(all_executions) ==
    LET trades == SelectSeq(all_executions, IsTrade)
    IN  IF \E i \in 1..Len(trades) :
               IntRaises(Get(trades[i], "execTime", Num(Zero)))
        THEN Wrap("Failed to fetch today's trades: {e}",
                  RaiseMsg("ValueError", [text |-> "invalid literal for int()"]))
        ELSE [returned |-> SortByExecTimeDesc(trades)]

\* if len(all_executions) > 1000: break
SafetyLimit(all) == Len(all) > TradeSafetyLimit

\* what follows the loop of each function
after_loop(fn, all) ==
    CASE fn = "get_positions" -> open_positions(all)
      [] fn = "get_todays_trades" -> todays_trades(all)
      [] OTHER -> all_orders_of(all)

\* the break that only get_todays_trades has
at_limit(fn, all) == fn = "get_todays_trades" /\ SafetyLimit(all)

\* one pass of the while True body: send the request, extend the list,
\* read nextPageCursor, break or go round again
next_page(st, ex, context) ==
    LET response == signed_request(s_GET, ExchangeReply(ex, st.page))
        result == Get(response.returned, "result", <<>>)
        all == st.all \o Get(result, "list", <<>>)
        cursor == Get(result, "nextPageCursor", None)
        sent == [st EXCEPT !.param = CursorParam(st.cursor),
                           !.page = NextIndex(ex, st.page)]
    IN  IF Raised(response)
        THEN [sent EXCEPT !.pc = "done", !.outcome = Wrap(context, response)]
        ELSE IF CursorParam(cursor) = None \/ at_limit(st.fn, all)
        THEN [sent EXCEPT !.pc = "done", !.all = all, !.cursor = cursor,
                          !.outcome = after_loop(st.fn, all)]
        ELSE [sent EXCEPT !.all = all, !.cursor = cursor]

(***************************************************************************)
(* bybit_api.py: what signed_request signs and sends.                      *)
(*                                                                         *)
(* params is the dict in insertion order, a sequence of <<key, value>>     *)
(* pairs with different keys.  HMAC-SHA256 is kept as the record of its    *)
(* key and its message: equal digests are taken to come from equal         *)
(* messages.                                                               *)
(***************************************************************************)
\* str(n) of an int that is not negative
RECURSIVE IntStr(_)
IntStr(n) ==
    IF n < 10 THEN <<Digits[n + 1]>>
    ELSE IntStr(n \div 10) \o <<Digits[(n % 10) + 1]>>

\* the text an f-string writes for a value
Format(v) ==
    IF v = None THEN <<"N","o","n","e">>
    ELSE IF IsStr(v) THEN v.str
    ELSE IntStr(v.num[1])

\* the order of the code points of the characters of the parameter names
Alphabet == Digits \o UpperLetters \o LowerLetters
CodePoint(c) == CHOOSE i \in 1..Len(Alphabet) : Alphabet[i] = c

RECURSIVE StrLess(_, _)
StrLess(a, b) ==
    IF b = <<>> THEN FALSE
    ELSE IF a = <<>> THEN TRUE
    ELSE IF a[1] = b[1] THEN StrLess(Tail(a), Tail(b))
    ELSE CodePoint(a[1]) < CodePoint(b[1])

\* the items left in insertion order
sorted_as_inserted(items) == items

\* sorted(params.items())
RECURSIVE sorted(_)
sorted(items) ==
    IF items = <<>> THEN <<>>
    ELSE LET rest == sorted(Tail(items))
             before == SelectSeq(rest, LAMBDA it : StrLess(it[1], items[1][1]))
             after == SelectSeq(rest, LAMBDA it : ~StrLess(it[1], items[1][1]))
         IN  before \o <<items[1]>> \o after

\* '&'.join(f"{k}={v}" for k, v in sorted_params)
RECURSIVE join_query(_)
join_query(items) ==
    IF items = <<>> THEN <<>>
    ELSE items[1][1] \o <<"=">> \o Format(items[1][2])
         \o (IF Len(items) = 1 THEN <<>> ELSE <<"&">> \o join_query(Tail(items)))

generate_signature(params, timestamp, api_key, api_secret, recv_window) ==
    [hmac_sha256 |->
        [key |-> api_secret.str,
         msg |-> timestamp \o Format(api_key) \o recv_window \o params]]

\* Config.RECV_WINDOW
RecvWindow == 5000
\* Config.BYBIT_BASE_URL
BaseUrl == <<"h","t","t","p","s",":","/","/","a","p","i">>

\* the request signed_request hands to requests.get or requests.post at
\* the time now_ms, in milliseconds
signed_request_sends(method, endpoint, params, now_ms, api_key, api_secret) ==
    LET timestamp == IntStr(now_ms)
        recv_window == IntStr(RecvWindow)
        query_string == IF StrUpper(method) = s_GET
                        THEN join_query(sorted(params))
                        ELSE <<>>
        signature == generate_signature(query_string, timestamp, api_key,
                                        api_secret, recv_window)
        headers == [api_key |-> api_key, sign |-> signature,
                    timestamp |-> timestamp, recv_window |-> recv_window]
        url == BaseUrl \o endpoint
    IN  IF StrUpper(method) = s_GET
        THEN [verb |-> "get", headers |-> headers, json |-> None,
              url |-> IF query_string # <<>>
                      THEN url \o <<"?">> \o query_string ELSE url]
        ELSE IF StrUpper(method) = s_POST
        THEN [verb |-> "post", headers |-> headers, json |-> [items |-> params],
              url |-> url]
        ELSE [verb |-> "none", headers |-> headers, json |-> None, url |-> url]

(***************************************************************************)
(* telegram_bot.py: handle_ws_order_update.                                *)
(*                                                                         *)
(* What the handler does is a sequence of events: a call of                *)
(* get_closed_pnl, a call of send_message with what the text holds, an     *)
(* error written to the log.  failing is the set of the orders of data     *)
(* whose send_message call raises.                                         *)
(***************************************************************************)
ChatId(n) == [chat |-> n]

\* the statuses that are notified
SignificantStatuses ==
    { Str(<<"N","e","w">>),
      Str(<<"P","a","r","t","i","a","l","l","y","F","i","l","l","e","d">>),
      Str(<<"F","i","l","l","e","d">>),
      Str(<<"C","a","n","c","e","l","l","e","d">>),
      Str(<<"R","e","j","e","c","t","e","d">>) }

s_Filled == Str(<<"F","i","l","l","e","d">>)
s_NA == Str(<<"N","/","A">>)

\* the first record, whatever order it belongs to
matching_pnl_first(closed_pnl_list, order_id) ==
    IF closed_pnl_list = <<>> THEN None ELSE closed_pnl_list[1]

\* the first record of the list with the order id of the order, None
\* without one
matching_pnl(closed_pnl_list, order_id) ==
    LET hits == SelectSeq(closed_pnl_list,
                    LAMBDA pnl_record : Get(pnl_record, "orderId", None) = order_id)
    IN  IF hits = <<>> THEN None ELSE hits[1]

\* the inner try: the realized PnL the text gets a line for, None when the
\* lookup raises, matches nothing or finds no number
realized_pnl(order_id, replies) ==
    LET closed_pnl_list == get_closed_pnl(replies)
        matched_pnl == matching_pnl(closed_pnl_list.returned, order_id)
    IN  IF Raised(closed_pnl_list) THEN None
        ELSE IF matched_pnl = None \/ DOMAIN matched_pnl = {} THEN None
        ELSE IF FloatRaises(Get(matched_pnl, "closedPnl", Num(Zero))) THEN None
        ELSE [closed_pnl |-> Float(Get(matched_pnl, "closedPnl", Num(Zero)))]

\* the for loop from order i on
RECURSIVE notify_from(_, _, _, _, _)
notify_from(data, i, cid, replies, failing) ==
    IF i > Len(data) THEN <<>>
    ELSE
    LET order == data[i]
        order_status == Get(order, "orderStatus", s_NA)
        avg_price == Get(order, "avgPrice", ZeroText)
        order_id == Get(order, "orderId", None)
        filled == order_status = s_Filled
        lookup == IF filled
                  THEN <<[event |-> "get_closed_pnl", order |-> i]>> ELSE <<>>
        send == [event |-> "send_message", order |-> i, chat_id |-> cid,
                 status |-> order_status,
                 avg_price |-> RGt(Float(avg_price), Zero),
                 pnl |-> IF filled THEN realized_pnl(order_id, replies)
                         ELSE None]
        failed == <<[event |-> "log_error", order |-> i]>>
    IN  IF order_status \notin SignificantStatuses
        THEN notify_from(data, i + 1, cid, replies, failing)
        ELSE IF FloatRaises(avg_price) THEN failed
        ELSE IF i \in failing THEN lookup \o <<send>> \o failed
        ELSE lookup \o <<send>> \o notify_from(data, i + 1, cid, replies, failing)

\* if not self.chat_id
NoChat(cid) == cid = None \/ cid = ChatId(0)

handle_ws_order_update(cid, message, replies, failing) ==
    IF NoChat(cid) THEN <<>>
    ELSE notify_from(Get(message, "data", <<>>), 1, cid, replies, failing)

(***************************************************************************)
(* telegram_bot.py: the cached chat.  _load_chat_id, _save_chat_id, start  *)
(* and button_callback as far as they touch chat_id and chat_id.txt.       *)
(***************************************************************************)
\* str(n) of an int
IntText(n) == IF n < 0 THEN <<"-">> \o IntStr(-n) ELSE IntStr(n)

\* _load_chat_id: file is what chat_id.txt holds, None without the file
load_chat_id(file) ==
    IF file = None THEN None
    ELSE IF IntRaises(Str(Strip(file.str))) THEN None
    ELSE ChatId(IntOf(Str(Strip(file.str))))

\* _save_chat_id(chat): the bot after the call.  written tells how the
\* write went: "ok", "open_fails" (open raises, the file is as before) or
\* "write_fails" (the file was opened, and so emptied, and write raises)
save_chat_id(cid, file, chat, written) ==
    CASE written = "ok" ->
            [chat_id |-> chat, chat_file |-> Str(IntText(chat.chat))]
      [] written = "open_fails" -> [chat_id |-> cid, chat_file |-> file]
      [] written = "write_fails" -> [chat_id |-> cid, chat_file |-> Str(<<>>)]

\* a button press that saves the chat whenever the update has one
button_callback_saves_always(cid, effective_chat) == effective_chat # None

\* if not self.chat_id and update.effective_chat
button_callback_saves(cid, effective_chat) ==
    NoChat(cid) /\ effective_chat # None

(***************************************************************************)
(* ws_client.py and TelegramBot.post_init: the order stream.               *)
(*                                                                         *)
(* Two threads run: the event loop, which runs post_init and, one at a     *)
(* time and only between coroutines, what was scheduled on it; and the     *)
(* thread of the socket, which calls handle_order for every message of a   *)
(* subscribed stream.  w is the record of both: where post_init stands,    *)
(* whether BybitWebSocket.loop and TelegramBot.application are stored,     *)
(* whether the stream is subscribed, the messages handle_order received,   *)
(* the coroutines waiting on the loop and the handlers started.            *)
(***************************************************************************)
\* handle_order calling the handler on the thread of the socket
handle_order_inline(w, message) ==
    [w EXCEPT !.received = Append(@, message),
              !.handlers = Append(@, [message |-> message, thread |-> "socket",
                                      application |-> w.application])]

\* handle_order: asyncio.run_coroutine_threadsafe(self.callback(message),
\* self.loop); without a stored loop the call raises and the error is logged
handle_order(w, message) ==
    IF w.loop_stored
    THEN [w EXCEPT !.received = Append(@, message),
                   !.scheduled = Append(@, message)]
    ELSE [w EXCEPT !.received = Append(@, message),
                   !.errors = @ + 1]

\* post_init has no await: the loop runs nothing else until it returns
LoopFree(w) == w.pc = "returned"

(***************************************************************************)
(* telegram_bot.py: how list_positions and list_orders cut their text      *)
(* into messages.  A text is a sequence of pieces, the header, one piece   *)
(* for each entry and the footer, each with its length in characters; a    *)
(* message is cut between pieces only.                                     *)
(***************************************************************************)
MessageLimit == 4000

RECURSIVE TextLen(_)
TextLen(text) == IF text = <<>> THEN 0 ELSE text[1].len + TextLen(Tail(text))

\* a test that lets every piece in
Overflows_never(current_message, piece) == FALSE

\* if len(current_message) + len(pos_str) > 4000
Overflows(current_message, piece) ==
    TextLen(current_message) + piece.len > MessageLimit

\* message.edit_text for the first message, effective_chat.send_message
\* for the later ones
Sent(is_first_message, text, keyboard) ==
    [event |-> IF is_first_message THEN "edit_text" ELSE "send_message",
     text |-> text, keyboard |-> keyboard]

\* the loop over the pieces and the last message, which gets the keyboard
RECURSIVE send_pieces(_, _, _)
send_pieces(pieces, current_message, is_first_message) ==
    IF pieces = <<>> THEN <<Sent(is_first_message, current_message, TRUE)>>
    ELSE IF Overflows(current_message, pieces[1])
    THEN <<Sent(is_first_message, current_message, FALSE)>>
         \o send_pieces(Tail(pieces), <<pieces[1]>>, FALSE)
    ELSE send_pieces(Tail(pieces), current_message \o <<pieces[1]>>,
                     is_first_message)

list_positions_messages(header, entries, footer) ==
    send_pieces(entries \o <<footer>>, <<header>>, TRUE)

list_orders_messages(header, entries) == send_pieces(entries, <<header>>, TRUE)

(***************************************************************************)
(* Inputs.                                                                 *)
(***************************************************************************)
RECURSIVE Lists(_, _)
Lists(S, n) ==
    IF n = 0 THEN {<<>>}
    ELSE LET shorter == Lists(S, n - 1)
         IN  shorter \cup {Append(l, x) : l \in {m \in shorter : Len(m) = n - 1},
                                           x \in S}

RECURSIVE Concat(_)
Concat(ss) == IF ss = <<>> THEN <<>> ELSE ss[1] \o Concat(Tail(ss))

\* symbols: up to MaxFragments of these pieces, written one after the other
Fragments ==
    { <<"B","T","C">>, <<"e","t","h">>, <<"A","R","B">>, <<"o","P">>,
      <<"D","o","g","e">>, <<"t","a","o">>, <<"U","S","D","T">>,
      <<"S","O","L">>, <<"P","E">> }

Symbols == {Concat(l) : l \in Lists(Fragments, MaxFragments)}

Missing == [missing |-> TRUE]

\* a dict holding the fields of rec that are not Missing
Dict(rec) == [k \in {f \in DOMAIN rec : rec[f] # Missing} |-> rec[k]]

s_0 == <<"0">>
s_100 == <<"1","0","0">>
s_abc == <<"a","b","c">>
s_ARBUSDT == <<"A","R","B","U","S","D","T">>

SymbolValues == {Missing, Str(s_ARBUSDT)}
SideValues == {Missing, Str(<<"B","u","y">>)}
SizeValues == {Missing, Str(<<>>), Str(<<"-","2">>)}
AvgPriceValues == {Missing, Str(s_abc), Str(s_100)}
MarkPriceValues == {Missing, Str(<<>>), Str(s_0), Str(s_100)}
LiqPriceValues ==
    {Missing, Str(<<>>), Str(s_0), Str(<<"0",".","0","0">>), Num(Zero),
     Str(s_abc), Str(<<"9","5">>)}
LeverageValues ==
    {Missing, Str(<<>>), Str(s_0), Str(<<"4",".","9","9">>),
     Str(<<"5",".","0">>), Str(<<"1","0",".","0">>),
     Str(<<"1","0",".","0","1">>)}
PnlValues ==
    {Missing, Str(s_abc), Str(<<"1","5","0",".","5">>), Str(<<"-","4","0">>)}

RawOrders ==
    { Dict([symbol |-> sy, side |-> Str(<<"S","e","l","l">>),
            orderType |-> Str(<<"L","i","m","i","t">>),
            price |-> pr, qty |-> q, orderId |-> oid]) :
        sy \in {Missing, Str(<<"S","O","L","U","S","D","T">>)},
        pr \in {Missing, Str(<<>>), Str(<<"1","1","0",".","0","0">>)},
        q \in {Missing, Str(s_abc), Str(<<"1","0">>)},
        oid \in {Missing, Str(<<"1","2","3","4","5">>)} }

\* the positions the portfolio runs draw from
Position(sy, sd, sz, liq, lev, pnl) ==
    Dict([symbol |-> Str(sy), side |-> sd, size |-> Str(sz),
          avgPrice |-> Str(s_100), markPrice |-> Str(s_100),
          liqPrice |-> Str(liq), leverage |-> Str(lev),
          unrealisedPnl |-> Str(pnl)])

PositionPool ==
    { Position(<<"B","T","C","U","S","D","T">>, Str(<<"B","u","y">>), <<"3">>,
               <<"9","5">>, <<"2","0">>, <<"1","5","0">>),
      Position(<<"E","T","H","U","S","D","T">>, Str(<<"S","e","l","l">>), <<"2">>,
               <<"1","0","5">>, <<"2","0">>, <<"-","1","5","0">>),
      Position(<<"P","E","P","E","U","S","D","T">>, Str(<<"B","u","y">>), <<"1">>,
               <<"9","7",".","5">>, <<"1","0">>, s_0),
      Position(s_ARBUSDT, Str(<<"B","U","Y">>), <<"2">>,
               <<"8","0">>, <<"1","0">>, <<"5","0">>),
      Position(<<"d","o","g","e","u","s","d","t">>, Str(<<"S","e","l","l">>), <<"-","3">>,
               <<>>, <<"2",".","5">>, s_0),
      Position(<<"S","O","L","U","S","D","T">>, Missing, <<"1">>,
               s_100, s_0, <<"-","5">>) }

\* positions for the urgent list: 5% from liquidation at leverage 20, 2.5%
\* from liquidation at leverage 10, 50% from liquidation at leverage 25
UrgentPool ==
    { Position(<<"B","T","C","U","S","D","T">>, Str(<<"B","u","y">>), <<"3">>,
               <<"9","5">>, <<"2","0">>, <<"1","5","0">>),
      Position(<<"P","E","P","E","U","S","D","T">>, Str(<<"B","u","y">>), <<"1">>,
               <<"9","7",".","5">>, <<"1","0">>, s_0),
      Position(<<"S","O","L","U","S","D","T">>, Str(<<"S","e","l","l">>), <<"1">>,
               <<"1","5","0">>, <<"2","5">>, s_0) }

PoolOrders ==
    { Dict([symbol |-> Str(<<"S","O","L","U","S","D","T">>),
            side |-> Str(<<"S","e","l","l">>),
            orderType |-> Str(<<"L","i","m","i","t">>),
            price |-> Str(<<"1","1","0",".","0","0">>),
            qty |-> Str(<<"1","0">>),
            orderId |-> Str(<<"1","2","3","4","5">>)]) }

\* Config.OPENAI_API_KEY: unset, empty, blank, set
ApiKeys == {None, Str(<<>>), Str(<<" ", " ">>), Str(<<"s","k","-","1">>)}

\* a list of n suggestions in a reply of the model
ReplyList(n) == [i \in 1..n |-> [template |-> "reply", n |-> i]]

ReplyDocuments ==
    { [urgent |-> ReplyList(u), recommended |-> ReplyList(r),
       optional |-> ReplyList(o)] :
        u \in {0, MaxReply}, r \in {2, MaxReply}, o \in {4} }
    \cup { <<>>, [urgent |-> ReplyList(1)], [error |-> "rate limited"] }

\* the document the prompt asks for
WantedDocument ==
    [urgent |-> ReplyList(2), recommended |-> ReplyList(2),
     optional |-> ReplyList(2)]

ReplyContents ==
    { <<Json(v)>> : v \in ReplyDocuments }
    \cup { <<Ws, Json(WantedDocument), Ws>>,
           <<Prose, Fence, JsonTag, Ws, Json(WantedDocument), Ws, Fence, Prose>>,
           <<Fence, Ws, Json(WantedDocument), Ws, Fence>>,
           <<Prose, Json(WantedDocument)>>,
           <<Fence, JsonTag, Prose, Json(WantedDocument), Fence>>,
           <<>>, <<Prose>>, <<Fence, JsonTag, Fence>> }

Replies ==
    { [kind |-> k] : k \in {"post_raises", "http_error", "body_not_json",
                            "no_content", "content_null"} }
    \cup { [kind |-> "content", content |-> c] : c \in ReplyContents }

(***************************************************************************)
(* What the exchange answers.                                              *)
(***************************************************************************)
s_BTCUSDT == <<"B","T","C","U","S","D","T">>

OpenPosition ==
    Position(s_BTCUSDT, Str(<<"B","u","y">>), <<"3">>, <<"9","5">>, <<"2","0">>,
             <<"1","5","0">>)
\* a closed position is listed with size 0
ClosedPosition ==
    Position(<<"E","T","H","U","S","D","T">>, Str(<<"S","e","l","l">>), s_0,
             <<>>, <<"1","0">>, s_0)
\* a record whose numeric fields are empty strings
BlankPosition ==
    Position(<<"S","O","L","U","S","D","T">>, Str(<<"B","u","y">>), <<>>,
             <<>>, <<>>, <<>>)

Execution(type, time) ==
    [symbol |-> Str(s_BTCUSDT), execType |-> Str(type), execTime |-> Str(time)]

Account ==
    [totalEquity |-> Str(<<"1","0","0","0">>),
     totalAvailableBalance |-> Str(<<"4","0","0">>),
     coin |-> << [coin |-> Str(<<"B","T","C">>)],
                 [coin |-> Str(s_USDT), equity |-> Str(<<"9","0","0">>)] >>]

\* the lists a page can hold
PageLists ==
    { <<>>,
      <<OpenPosition>>,
      <<ClosedPosition, OpenPosition>>,
      <<BlankPosition>>,
      <<Execution(<<"T","r","a","d","e">>, <<"1">>), Execution(s_Funding, <<"5">>),
        Execution(<<"T","r","a","d","e">>, <<"2">>)>>,
      <<Execution(<<"T","r","a","d","e">>, s_abc)>>,
      <<Account>> }

\* a body with retCode 0, a list and, unless Missing, a nextPageCursor
Page(l, cursor) ==
    [kind |-> "json",
     data |-> [retCode |-> Num(Zero), retMsg |-> Str(<<"O","K">>),
               result |-> Dict([nextPageCursor |-> cursor]) @@ [list |-> l]]]

\* a body with another retCode
ErrorBody(code) ==
    [kind |-> "json",
     data |-> [retCode |-> code, retMsg |-> Str(<<"d","e","n","i","e","d">>),
               result |-> <<>>]]

\* pages that name a next page
MorePages == {Page(l, Str(<<"c","1">>)) : l \in PageLists}

\* the last answer of a script: a page without a cursor, a body without a
\* result or without a list, or a failure
FinalReplies ==
    {Page(l, c) : l \in PageLists, c \in {Missing, Str(<<>>)}}
    \cup { [kind |-> "json", data |-> [retCode |-> Num(Zero)]],
           [kind |-> "json", data |-> [retCode |-> Num(Zero), result |-> <<>>]],
           [kind |-> "network"],
           [kind |-> "http_error"],
           [kind |-> "not_json", request_exception |-> TRUE],
           [kind |-> "not_json", request_exception |-> FALSE],
           ErrorBody(Num(RInt(10001))),
           ErrorBody(Str(s_0)),
           [kind |-> "json", data |-> [result |-> [list |-> <<OpenPosition>>]]] }

\* the scripts of up to n answers: pages that name a next page, then a last one
RECURSIVE Scripts(_)
Scripts(n) ==
    IF n = 1 THEN {<<r>> : r \in FinalReplies}
    ELSE Scripts(n - 1)
         \cup {<<m>> \o sc : m \in MorePages,
                             sc \in {x \in Scripts(n - 1) : Len(x) = n - 1}}

\* the method argument of signed_request
Methods == {s_GET, <<"g","e","t">>, s_POST, <<"P","U","T">>}

(***************************************************************************)
(* What the front ends are asked, and what the exchange answers them.      *)
(***************************************************************************)
\* a position the analyzer cannot read: its leverage is no number
UnreadablePosition ==
    Position(<<"S","O","L","U","S","D","T">>, Str(<<"B","u","y">>), <<"1">>,
             <<"9","5">>, s_abc, s_0)

LimitOrder ==
    [symbol |-> Str(s_BTCUSDT), side |-> Str(<<"S","e","l","l">>),
     orderType |-> Str(<<"L","i","m","i","t">>),
     price |-> Str(<<"1","1","0",".","0","0">>), qty |-> Str(<<"1","0">>),
     orderId |-> Str(<<"1","2","3","4","5">>),
     createdTime |-> Str(<<"1","0","0","0">>)]

StopOrder ==
    [symbol |-> Str(s_BTCUSDT), side |-> Str(<<"S","e","l","l">>),
     orderType |-> Str(<<"M","a","r","k","e","t">>),
     stopOrderType |-> Str(<<"S","t","o","p","L","o","s","s">>),
     triggerPrice |-> Str(<<"9","0">>), qty |-> Str(<<"3">>)]

ClosedTrade ==
    [symbol |-> Str(s_BTCUSDT), side |-> Str(<<"S","e","l","l">>),
     closedPnl |-> Str(<<"1","2",".","5">>),
     avgExitPrice |-> Str(s_100), qty |-> Str(<<"1">>),
     updatedTime |-> Str(<<"1","0","0","0">>)]

NetworkDown == <<[kind |-> "network"]>>
OnePage(l) == <<Page(l, Missing)>>
Denied == ErrorBody(Num(RInt(10001)))

PositionsScripts ==
    { NetworkDown,
      <<Page(<<OpenPosition>>, Str(<<"c","1">>)), Denied>>,
      OnePage(<<>>),
      OnePage(<<ClosedPosition, OpenPosition>>),
      OnePage(<<UnreadablePosition>>) }
OrdersScripts == {NetworkDown, OnePage(<<>>), OnePage(<<LimitOrder, StopOrder>>)}
ClosedPnlScripts == {NetworkDown, OnePage(<<ClosedTrade>>)}
BalanceScripts == {<<Denied>>, OnePage(<<Account>>)}
ExecutionsScripts ==
    { NetworkDown,
      OnePage(<<Execution(<<"T","r","a","d","e">>, <<"1">>), Execution(s_Funding, <<"5">>),
                Execution(<<"T","r","a","d","e">>, <<"2">>)>>) }

Exchanges ==
    [positions : PositionsScripts, orders : OrdersScripts,
     closed_pnl : ClosedPnlScripts, balance : BalanceScripts,
     executions : ExecutionsScripts]

\* BYBIT_API_KEY and BYBIT_API_SECRET: both set, key unset, secret empty,
\* key blank, secret blank
BybitKeys ==
    { <<Str(<<"k","1">>), Str(<<"s","1">>)>>,
      <<None, Str(<<"s","1">>)>>,
      <<Str(<<"k","1">>), Str(<<>>)>>,
      <<Str(<<" "," ">>), Str(<<"s","1">>)>>,
      <<Str(<<"k","1">>), Str(<<" ">>)>> }

\* sys.argv
s_bot == <<"b","o","t",".","p","y">>
Argvs ==
    { <<s_bot>>,
      <<s_bot, s_list>>,
      <<s_bot, <<"L","I","S","T">>>>,
      <<s_bot, <<"O","r","d","e","r","s">>>>,
      <<s_bot, s_analyze>>,
      <<s_bot, <<"H","E","L","P">>>>,
      <<s_bot, <<"-","-","h","e","l","p">>>>,
      <<s_bot, <<"-","h">>>>,
      <<s_bot, <<"s","t","a","t","u","s">>>> }

\* the clock 24 hours before show_recent_trades runs, in milliseconds
StartTimes == {0, 2, 9}

(***************************************************************************)
(* The exchanges the pagination loops run against.                         *)
(***************************************************************************)
\* the cursor page k names
CursorOf(k) == Str(<<"c", Digits[k + 1]>>)

\* the number of executions a full page holds
PageLimit == 50

PagedLists ==
    { <<>>,
      <<OpenPosition>>,
      <<ClosedPosition, OpenPosition>>,
      <<Execution(<<"T","r","a","d","e">>, <<"1">>), Execution(s_Funding, <<"5">>),
        Execution(<<"T","r","a","d","e">>, <<"2">>)>> }

LastPages ==
    {Page(l, c) : l \in PagedLists, c \in {Missing, Str(<<>>)}}
    \cup {Denied, [kind |-> "network"]}

\* n pages each naming the next, then a last answer
RECURSIVE PagedScripts(_, _)
PagedScripts(k, n) ==
    {<<r>> : r \in LastPages}
    \cup (IF n = 1 THEN {}
          ELSE {<<Page(l, CursorOf(k))>> \o sc :
                    l \in PagedLists, sc \in PagedScripts(k + 1, n - 1)})

\* the exchange that never stops naming a next page: with empty pages, and
\* with full pages of funding executions
EndlessEmpty ==
    [replies |-> <<Page(<<>>, CursorOf(1)), Page(<<>>, CursorOf(2))>>,
     endless |-> TRUE]
EndlessFull ==
    [replies |-> <<Page([i \in 1..PageLimit |-> Execution(s_Funding, <<"5">>)],
                        CursorOf(1))>>,
     endless |-> TRUE]

PagedFunctions ==
    {"get_positions", "get_open_orders", "get_conditional_orders",
     "get_todays_trades"}

(***************************************************************************)
(* The requests that are signed.                                           *)
(***************************************************************************)
MaxParams == 3

ParamPool ==
    { <<<<"c","a","t","e","g","o","r","y">>, Str(<<"l","i","n","e","a","r">>)>>,
      <<<<"s","e","t","t","l","e","C","o","i","n">>, Str(s_USDT)>>,
      <<<<"l","i","m","i","t">>, Num(<<50, 1>>)>>,
      <<<<"c","u","r","s","o","r">>, CursorOf(1)>> }

\* the dicts of up to n items, in every insertion order
RECURSIVE ParamDicts(_)
ParamDicts(n) ==
    IF n = 0 THEN {<<>>}
    ELSE LET shorter == ParamDicts(n - 1)
         IN  shorter \cup
             UNION {{Append(d, it) :
                        it \in {p \in ParamPool :
                                   \A i \in 1..Len(d) : d[i] # p}} :
                    d \in shorter}

Endpoint == <<"/","v","5">>
Clock == {42, 1700}
SignedMethods == {s_GET, <<"g","e","t">>, s_POST}

(***************************************************************************)
(* The order updates of the stream.                                        *)
(***************************************************************************)
MaxUpdates == 2

OrderUpdate(id, status, avg) ==
    Dict([symbol |-> Str(s_BTCUSDT), side |-> Str(<<"B","u","y">>),
          orderStatus |-> Str(status), orderId |-> Str(id), avgPrice |-> avg])

\* a new order is streamed with an empty avgPrice
OrderPool ==
    { OrderUpdate(<<"o","1">>, <<"N","e","w">>, Str(<<>>)),
      OrderUpdate(<<"o","1">>, <<"N","e","w">>, ZeroText),
      OrderUpdate(<<"o","2">>, <<"F","i","l","l","e","d">>, Str(<<"9","5">>)),
      OrderUpdate(<<"o","3">>, <<"C","a","n","c","e","l","l","e","d">>, Missing),
      OrderUpdate(<<"o","4">>, <<"U","n","t","r","i","g","g","e","r","e","d">>,
                  ZeroText) }

RECURSIVE OrderLists(_)
OrderLists(n) ==
    IF n = 0 THEN {<<>>}
    ELSE LET shorter == OrderLists(n - 1)
         IN  shorter \cup {Append(l, o) : l \in shorter, o \in OrderPool}

OrderMessages ==
    {[topic |-> Str(<<"o","r","d","e","r">>), data |-> l] :
        l \in OrderLists(MaxUpdates)}
    \cup {[topic |-> Str(<<"o","r","d","e","r">>)]}

ClosedPnlOf(id, pnl) == [orderId |-> Str(id), closedPnl |-> Str(pnl)]

PnlScripts ==
    { NetworkDown,
      OnePage(<<>>),
      OnePage(<<ClosedPnlOf(<<"o","9">>, <<"3">>), ClosedPnlOf(<<"o","2">>, <<"1","2",".","5">>)>>),
      OnePage(<<ClosedPnlOf(<<"o","9">>, <<"3">>)>>),
      OnePage(<<ClosedPnlOf(<<"o","2">>, <<>>)>>) }

ChatIds == {None, ChatId(7)}

(***************************************************************************)
(* The chats and the chat_id.txt files of the bot.                         *)
(***************************************************************************)
MaxCommands == 3

\* Telegram gives no chat the id 0
Chats == {ChatId(7), ChatId(-9)}

ChatFiles ==
    { None, Str(<<"7">>), Str(<<" ","-","4","\n">>), Str(<<"a","b","c">>),
      Str(<<>>) }

WriteOutcomes == {"ok", "open_fails", "write_fails"}

(***************************************************************************)
(* The messages of the order stream.                                       *)
(***************************************************************************)
MaxMessages == 3

StreamMessages ==
    {[topic |-> Str(<<"o","r","d","e","r">>), data |-> <<o>>] :
        o \in { OrderUpdate(<<"o","1">>, <<"N","e","w">>, ZeroText),
                OrderUpdate(<<"o","2">>, <<"F","i","l","l","e","d">>, Str(<<"9","5">>)),
                OrderUpdate(<<"o","3">>, <<"C","a","n","c","e","l","l","e","d">>, Missing) }}

(***************************************************************************)
(* The listings.                                                           *)
(***************************************************************************)
MaxEntries == 3

Piece(kind, k, len) == [piece |-> kind, k |-> k, len |-> len]

EntryLengths == {200, 1900, 3900, 4100}
FooterLengths == {90, 170}
HeaderLength == {110}

\* the entries of a listing, entry k with one of the lengths
RECURSIVE EntriesUpTo(_)
EntriesUpTo(n) ==
    IF n = 0 THEN {<<>>}
    ELSE LET shorter == EntriesUpTo(n - 1)
         IN  shorter \cup
             {Append(l, Piece("entry", Len(l) + 1, len)) :
                 l \in {s \in shorter : Len(s) = n - 1}, len \in EntryLengths}

(***************************************************************************)
(* The calls.                                                              *)
(***************************************************************************)
CategorizeSymbol ==
    /\ cluster = NotRun
    /\ cluster' = [returned |-> categorize_symbol(symbol)]
    /\ UNCHANGED <<symbol, position, analyzed, analyzed_orders, raw_positions,
                   raw_orders, analysis, openai_key, llm, requests, suggestions,
                   api_vars, front_vars>>

AnalyzePosition ==
    /\ analyzed = NotRun
    /\ analyzed' = analyze_position(position)
    /\ UNCHANGED <<symbol, cluster, position, analyzed_orders, raw_positions,
                   raw_orders, analysis, openai_key, llm, requests, suggestions,
                   api_vars, front_vars>>

AnalyzeOrders ==
    /\ analyzed_orders = NotRun
    /\ raw_orders # None
    /\ analyzed_orders' =
           IF analyze_orders_raises(raw_orders.list) THEN ValueError
           ELSE [returned |-> analyze_orders(raw_orders.list)]
    /\ UNCHANGED <<symbol, cluster, position, analyzed, raw_positions,
                   raw_orders, analysis, openai_key, llm, requests, suggestions,
                   api_vars, front_vars>>

AnalyzePositions ==
    /\ analysis = NotRun
    /\ analysis' = analyze_positions(raw_positions, raw_orders)
    /\ UNCHANGED <<symbol, cluster, position, analyzed, analyzed_orders,
                   raw_positions, raw_orders, openai_key, llm, requests,
                   suggestions, api_vars, front_vars>>

AnalyzeWithAi ==
    /\ "portfolio" \in DOMAIN analysis
    /\ suggestions = NotRun
    /\ IF has_openai(openai_key)
       THEN \E reply \in Replies :
               /\ llm' = reply
               /\ requests' = requests + 1
               /\ suggestions' = analyze_with_ai(analysis, openai_key, reply)
       ELSE /\ llm' = NotRun
            /\ requests' = requests
            /\ suggestions' = analyze_with_ai(analysis, openai_key, NotRun)
    /\ UNCHANGED <<symbol, cluster, position, analyzed, analyzed_orders,
                   raw_positions, raw_orders, analysis, openai_key,
                   api_vars, front_vars>>

\* what a call of a bybit_api function leaves alone
fetch_frame ==
    <<symbol, cluster, position, analyzed, analyzed_orders, raw_positions,
      raw_orders, analysis, openai_key, llm, requests, suggestions, exchange,
      front_vars>>

\* signed_request(method, ...) meeting the first answer of the script
SignedRequest ==
    \E method \in Methods :
        /\ fetched = NotRun
        /\ fetched' = [fn |-> "signed_request", method |-> method,
                       outcome |-> signed_request(method, ReplyAt(exchange, 1))]
        /\ UNCHANGED fetch_frame

GetPositions ==
    /\ fetched = NotRun
    /\ fetched' = [fn |-> "get_positions", outcome |-> get_positions(exchange)]
    /\ UNCHANGED fetch_frame

GetOpenOrders ==
    /\ fetched = NotRun
    /\ fetched' = [fn |-> "get_open_orders", outcome |-> get_open_orders(exchange)]
    /\ UNCHANGED fetch_frame

GetConditionalOrders ==
    /\ fetched = NotRun
    /\ fetched' = [fn |-> "get_conditional_orders", outcome |-> get_conditional_orders(exchange)]
    /\ UNCHANGED fetch_frame

GetRecentTrades ==
    /\ fetched = NotRun
    /\ fetched' = [fn |-> "get_recent_trades", outcome |-> get_recent_trades(exchange)]
    /\ UNCHANGED fetch_frame

GetTodaysTrades ==
    /\ fetched = NotRun
    /\ fetched' = [fn |-> "get_todays_trades", outcome |-> get_todays_trades(exchange)]
    /\ UNCHANGED fetch_frame

GetClosedPnl ==
    /\ fetched = NotRun
    /\ fetched' = [fn |-> "get_closed_pnl", outcome |-> get_closed_pnl(exchange)]
    /\ UNCHANGED fetch_frame

GetWalletBalance ==
    /\ fetched = NotRun
    /\ fetched' = [fn |-> "get_wallet_balance", outcome |-> get_wallet_balance(exchange)]
    /\ UNCHANGED fetch_frame

\* what serving a request leaves alone
front_frame ==
    <<symbol, cluster, position, analyzed, analyzed_orders, raw_positions,
      raw_orders, analysis, openai_key, llm, requests, suggestions, api_vars,
      bybit_key, bybit_secret, bot_vars>>

\* the request is answered: req names the handler and its input, r is what
\* the handler did
Answered(req, r) ==
    /\ request' = req @@ [raised |-> r.raised]
    /\ answer' = r.answer
    /\ served' = served + 1

\* python bot.py ...
Main ==
    \E argv \in Argvs :
        /\ served < MaxRequests
        /\ Answered([front |-> "cli", handler |-> "main", argv |-> argv,
                     steps |-> main(argv, bybit_key, bybit_secret, openai_key,
                                    exchange).steps],
                    main(argv, bybit_key, bybit_secret, openai_key, exchange))
        /\ UNCHANGED front_frame

\* GET /api/data
GetData ==
    /\ served < MaxRequests
    /\ Answered([front |-> "http", handler |-> "get_data"],
                get_data(openai_key, exchange))
    /\ UNCHANGED front_frame

\* GET /api/trades
GetTrades ==
    /\ served < MaxRequests
    /\ Answered([front |-> "http", handler |-> "get_trades"],
                get_trades(exchange))
    /\ UNCHANGED front_frame

\* /balance
ShowBalance ==
    /\ served < MaxRequests
    /\ Answered([front |-> "telegram", handler |-> "show_balance"],
                show_balance(exchange))
    /\ UNCHANGED front_frame

\* /list
ListPositions ==
    /\ served < MaxRequests
    /\ Answered([front |-> "telegram", handler |-> "list_positions"],
                list_positions(exchange))
    /\ UNCHANGED front_frame

\* /orders
ListOrders ==
    /\ served < MaxRequests
    /\ Answered([front |-> "telegram", handler |-> "list_orders"],
                list_orders(exchange))
    /\ UNCHANGED front_frame

\* /analyze
TelegramAnalyzePositions ==
    /\ served < MaxRequests
    /\ Answered([front |-> "telegram", handler |-> "analyze_positions"],
                telegram_analyze_positions(openai_key, exchange))
    /\ UNCHANGED front_frame

\* /pnl
ShowDailyPnl ==
    /\ served < MaxRequests
    /\ Answered([front |-> "telegram", handler |-> "show_daily_pnl"],
                show_daily_pnl(exchange))
    /\ UNCHANGED front_frame

\* /trades
ShowRecentTrades ==
    \E start_time_ms \in StartTimes :
        /\ served < MaxRequests
        /\ Answered([front |-> "telegram", handler |-> "show_recent_trades",
                     start_time_ms |-> start_time_ms],
                    show_recent_trades(exchange, start_time_ms))
        /\ UNCHANGED front_frame

\* get_positions goes once round its loop
PositionsPage ==
    /\ fetched.pc = "loop" /\ fetched.fn = "get_positions"
    /\ fetched' = next_page(fetched, exchange, "Failed to fetch positions: {e}")
    /\ UNCHANGED fetch_frame

OpenOrdersPage ==
    /\ fetched.pc = "loop" /\ fetched.fn = "get_open_orders"
    /\ fetched' = next_page(fetched, exchange, "Failed to fetch open orders: {e}")
    /\ UNCHANGED fetch_frame

ConditionalOrdersPage ==
    /\ fetched.pc = "loop" /\ fetched.fn = "get_conditional_orders"
    /\ fetched' = next_page(fetched, exchange,
                            "Failed to fetch conditional orders: {e}")
    /\ UNCHANGED fetch_frame

TodaysTradesPage ==
    /\ fetched.pc = "loop" /\ fetched.fn = "get_todays_trades"
    /\ fetched' = next_page(fetched, exchange,
                            "Failed to fetch today's trades: {e}")
    /\ UNCHANGED fetch_frame

\* signed_request(method, endpoint, params) builds and sends its request
SendSigned ==
    /\ fetched = NotRun
    /\ \E method \in SignedMethods, params \in ParamDicts(MaxParams),
          now_ms \in Clock :
          fetched' = [fn |-> "signed_request", method |-> method,
                      params |-> params, now_ms |-> now_ms,
                      sent |-> signed_request_sends(method, Endpoint, params,
                                   now_ms, bybit_key, bybit_secret)]
    /\ UNCHANGED <<symbol, cluster, position, analyzed, analyzed_orders,
                   raw_positions, raw_orders, analysis, openai_key, llm,
                   requests, suggestions, exchange, front_vars>>

\* the event loop runs handle_ws_order_update(message)
HandleWsOrderUpdate ==
    /\ request = NotRun
    /\ \E message \in OrderMessages, failing \in SUBSET (1..MaxUpdates) :
          /\ request' = [front |-> "websocket",
                         handler |-> "handle_ws_order_update",
                         message |-> message, failing |-> failing]
          /\ outbox' = outbox \o handle_ws_order_update(chat_id, message,
                                                        exchange, failing)
    /\ UNCHANGED <<symbol, cluster, position, analyzed, analyzed_orders,
                   raw_positions, raw_orders, analysis, openai_key, llm,
                   requests, suggestions, api_vars, bybit_key, bybit_secret,
                   answer, served, chat_id, chat_file, updates, ws>>

\* /start from a chat
Start ==
    /\ Len(updates) <= MaxCommands
    /\ \E chat \in Chats, written \in WriteOutcomes :
          LET saved == save_chat_id(chat_id, chat_file, chat, written)
          IN  /\ chat_id' = saved.chat_id
              /\ chat_file' = saved.chat_file
              /\ updates' = Append(updates, [kind |-> "start", chat |-> chat,
                                             written |-> written])
    /\ UNCHANGED <<symbol, cluster, position, analyzed, analyzed_orders,
                   raw_positions, raw_orders, analysis, openai_key, llm,
                   requests, suggestions, api_vars, bybit_key, bybit_secret,
                   request, answer, served, outbox, ws>>

\* a button is pressed in a chat, or in an update without a chat
ButtonCallback ==
    /\ Len(updates) <= MaxCommands
    /\ \E chat \in Chats \cup {None}, outcome \in WriteOutcomes :
          LET saves == button_callback_saves(chat_id, chat)
              written == IF saves THEN outcome ELSE "not_tried"
              saved == IF saves
                       THEN save_chat_id(chat_id, chat_file, chat, written)
                       ELSE [chat_id |-> chat_id, chat_file |-> chat_file]
          IN  /\ chat_id' = saved.chat_id
              /\ chat_file' = saved.chat_file
              /\ updates' = Append(updates, [kind |-> "button", chat |-> chat,
                                             written |-> written])
    /\ UNCHANGED <<symbol, cluster, position, analyzed, analyzed_orders,
                   raw_positions, raw_orders, analysis, openai_key, llm,
                   requests, suggestions, api_vars, bybit_key, bybit_secret,
                   request, answer, served, outbox, ws>>

ws_frame ==
    <<symbol, cluster, position, analyzed, analyzed_orders, raw_positions,
      raw_orders, analysis, openai_key, llm, requests, suggestions, api_vars,
      bybit_key, bybit_secret, request, answer, served, chat_id, chat_file,
      updates, outbox>>

\* post_init: self.ws_client = BybitWebSocket(self.handle_ws_order_update)
PostInitCreatesClient ==
    /\ ws.pc = "called"
    /\ ws' = [ws EXCEPT !.pc = "client"]
    /\ UNCHANGED ws_frame

\* BybitWebSocket.start: self.loop = loop
StartStoresLoop ==
    /\ ws.pc = "client"
    /\ ws' = [ws EXCEPT !.pc = "loop", !.loop_stored = TRUE]
    /\ UNCHANGED ws_frame

\* BybitWebSocket.start: self.ws.order_stream(callback=self.handle_order)
StartSubscribes ==
    /\ ws.pc = "loop"
    /\ ws' = [ws EXCEPT !.pc = "subscribed", !.subscribed = TRUE]
    /\ UNCHANGED ws_frame

\* post_init: self.application = application, and post_init returns
PostInitStoresApplication ==
    /\ ws.pc = "subscribed"
    /\ ws' = [ws EXCEPT !.pc = "returned", !.application = TRUE]
    /\ UNCHANGED ws_frame

\* the thread of the socket receives a message of the subscribed stream
HandleOrder ==
    /\ ws.subscribed
    /\ Len(ws.received) < MaxMessages
    /\ \E message \in StreamMessages : ws' = handle_order(ws, message)
    /\ UNCHANGED ws_frame

\* the event loop starts the coroutine that was scheduled first
RunOrderHandler ==
    /\ LoopFree(ws)
    /\ ws.scheduled # <<>>
    /\ ws' = [ws EXCEPT !.scheduled = Tail(@),
                        !.handlers = Append(@, [message |-> Head(ws.scheduled),
                                                thread |-> "loop",
                                                application |-> ws.application])]
    /\ UNCHANGED ws_frame

listing_frame ==
    <<symbol, cluster, position, analyzed, analyzed_orders, raw_positions,
      raw_orders, analysis, openai_key, llm, requests, suggestions, api_vars,
      bybit_key, bybit_secret, answer, served, chat_id, chat_file, updates,
      ws>>

\* /list with open positions: the text goes out
SendPositionsList ==
    /\ request = NotRun
    /\ \E entries \in EntriesUpTo(MaxEntries) \ {<<>>},
          h \in HeaderLength, f \in FooterLengths :
          LET header == Piece("header", 0, h)
              footer == Piece("footer", 0, f)
          IN  /\ request' = [front |-> "telegram", handler |-> "list_positions",
                             text |-> <<header>> \o entries \o <<footer>>]
              /\ outbox' = outbox
                           \o list_positions_messages(header, entries, footer)
    /\ UNCHANGED listing_frame

\* /orders with open orders: the text goes out
SendOrdersList ==
    /\ request = NotRun
    /\ \E entries \in EntriesUpTo(MaxEntries) \ {<<>>}, h \in HeaderLength :
          LET header == Piece("header", 0, h)
          IN  /\ request' = [front |-> "telegram", handler |-> "list_orders",
                             text |-> <<header>> \o entries]
              /\ outbox' = outbox \o list_orders_messages(header, entries)
    /\ UNCHANGED listing_frame

\* _fallback_analysis(analysis) called on its own, as test_analyzer.py does
FallbackAnalysis ==
    /\ "portfolio" \in DOMAIN analysis
    /\ suggestions = NotRun
    /\ suggestions' = [returned |-> fallback_analysis(analysis)]
    /\ UNCHANGED <<symbol, cluster, position, analyzed, analyzed_orders,
                   raw_positions, raw_orders, analysis, openai_key, llm,
                   requests, api_vars, front_vars>>

(***************************************************************************)
(* Specifications: one per entry point, each drawing its arguments in Init.*)
(***************************************************************************)
\* no bybit_api call and no front-end request has been made
ApiIdle == exchange = <<>> /\ fetched = NotRun

\* the chat bot is not running
BotIdle ==
    /\ chat_id = None /\ chat_file = None /\ updates = <<>>
    /\ outbox = <<>> /\ ws = NotRun

FrontIdle ==
    /\ bybit_key = None /\ bybit_secret = None
    /\ request = NotRun /\ answer = NotRun /\ served = 0
    /\ BotIdle

InitSymbol ==
    /\ symbol \in Symbols
    /\ cluster = NotRun
    /\ position = <<>> /\ analyzed = NotRun /\ analyzed_orders = NotRun
    /\ raw_positions = <<>> /\ raw_orders = None /\ analysis = NotRun
    /\ openai_key = None /\ llm = NotRun /\ requests = 0
    /\ suggestions = NotRun
    /\ ApiIdle /\ FrontIdle

NextSymbol == CategorizeSymbol

SpecSymbol == InitSymbol /\ [][NextSymbol]_vars

InitPosition ==
    /\ symbol = <<>> /\ cluster = NotRun
    /\ \/ /\ \E sy \in SymbolValues, sd \in SideValues, sz \in SizeValues,
                ap \in AvgPriceValues, mp \in MarkPriceValues,
                lp \in LiqPriceValues, lv \in LeverageValues, pnl \in PnlValues :
                position = Dict([symbol |-> sy, side |-> sd, size |-> sz,
                                 avgPrice |-> ap, markPrice |-> mp,
                                 liqPrice |-> lp, leverage |-> lv,
                                 unrealisedPnl |-> pnl])
          /\ raw_orders = List(<<>>)
       \/ /\ position = <<>>
          /\ raw_orders \in {List(l) : l \in Lists(RawOrders, MaxOrders)}
    /\ analyzed = NotRun /\ analyzed_orders = NotRun
    /\ raw_positions = <<>> /\ analysis = NotRun
    /\ openai_key = None /\ llm = NotRun /\ requests = 0
    /\ suggestions = NotRun
    /\ ApiIdle /\ FrontIdle

NextPosition == AnalyzePosition \/ AnalyzeOrders

SpecPosition == InitPosition /\ [][NextPosition]_vars

Init ==
    /\ symbol = <<>> /\ cluster = NotRun
    /\ position = <<>> /\ analyzed = NotRun /\ analyzed_orders = NotRun
    /\ raw_positions \in Lists(PositionPool, MaxPositions)
    /\ raw_orders \in {None} \cup {List(l) : l \in Lists(PoolOrders, MaxOrders)}
    /\ analysis = NotRun
    /\ openai_key = None /\ llm = NotRun /\ requests = 0
    /\ suggestions = NotRun
    /\ ApiIdle /\ FrontIdle

Next == AnalyzePositions

Spec == Init /\ [][Next]_vars

InitAi ==
    /\ symbol = <<>> /\ cluster = NotRun
    /\ position = <<>> /\ analyzed = NotRun /\ analyzed_orders = NotRun
    /\ raw_positions \in Lists(PositionPool, MaxPositions)
    /\ raw_orders = None
    /\ analysis = NotRun
    /\ openai_key \in ApiKeys
    /\ llm = NotRun /\ requests = 0
    /\ suggestions = NotRun
    /\ ApiIdle /\ FrontIdle

NextAi == AnalyzePositions \/ AnalyzeWithAi

SpecAi == InitAi /\ [][NextAi]_vars

InitFallback ==
    /\ symbol = <<>> /\ cluster = NotRun
    /\ position = <<>> /\ analyzed = NotRun /\ analyzed_orders = NotRun
    /\ raw_positions \in Lists(UrgentPool, MaxUrgentPositions)
    /\ raw_orders = None
    /\ analysis = NotRun
    /\ openai_key = None /\ llm = NotRun /\ requests = 0
    /\ suggestions = NotRun
    /\ ApiIdle /\ FrontIdle

NextFallback == AnalyzePositions \/ FallbackAnalysis

SpecFallback == InitFallback /\ [][NextFallback]_vars

InitFetch ==
    /\ symbol = <<>> /\ cluster = NotRun
    /\ position = <<>> /\ analyzed = NotRun /\ analyzed_orders = NotRun
    /\ raw_positions = <<>> /\ raw_orders = None /\ analysis = NotRun
    /\ openai_key = None /\ llm = NotRun /\ requests = 0
    /\ suggestions = NotRun
    /\ exchange \in Scripts(MaxPages)
    /\ fetched = NotRun
    /\ FrontIdle

NextFetch ==
    \/ SignedRequest
    \/ GetPositions
    \/ GetOpenOrders
    \/ GetConditionalOrders
    \/ GetRecentTrades
    \/ GetTodaysTrades
    \/ GetClosedPnl
    \/ GetWalletBalance

SpecFetch == InitFetch /\ [][NextFetch]_vars

\* a paginated function is called; the three loops without a limit are
\* not run against the endless exchange whose pages are full, the list
\* they would collect having no bound
InitPages ==
    /\ symbol = <<>> /\ cluster = NotRun
    /\ position = <<>> /\ analyzed = NotRun /\ analyzed_orders = NotRun
    /\ raw_positions = <<>> /\ raw_orders = None /\ analysis = NotRun
    /\ openai_key = None /\ llm = NotRun /\ requests = 0
    /\ suggestions = NotRun
    /\ \E fn \in PagedFunctions :
          /\ fetched = [fn |-> fn, pc |-> "loop", cursor |-> None, all |-> <<>>,
                        param |-> NotRun, page |-> 1, outcome |-> NotRun]
          /\ exchange \in
                {[replies |-> sc, endless |-> FALSE] : sc \in PagedScripts(1, MaxPages)}
                \cup {EndlessEmpty}
                \cup (IF fn = "get_todays_trades" THEN {EndlessFull} ELSE {})
    /\ FrontIdle

NextPages ==
    \/ PositionsPage
    \/ OpenOrdersPage
    \/ ConditionalOrdersPage
    \/ TodaysTradesPage

\* a running call goes on to its next request
SpecPages == InitPages /\ [][NextPages]_vars /\ WF_vars(NextPages)

\* a request is about to be signed, with the credentials of the environment
InitSign ==
    /\ symbol = <<>> /\ cluster = NotRun
    /\ position = <<>> /\ analyzed = NotRun /\ analyzed_orders = NotRun
    /\ raw_positions = <<>> /\ raw_orders = None /\ analysis = NotRun
    /\ openai_key = None /\ llm = NotRun /\ requests = 0
    /\ suggestions = NotRun
    /\ exchange = <<>> /\ fetched = NotRun
    /\ \E keys \in BybitKeys : bybit_key = keys[1] /\ bybit_secret = keys[2]
    /\ request = NotRun /\ answer = NotRun /\ served = 0
    /\ BotIdle

NextSign == SendSigned

SpecSign == InitSign /\ [][NextSign]_vars

\* the bot is running with or without a cached chat, an order update is
\* about to be handled
InitNotify ==
    /\ symbol = <<>> /\ cluster = NotRun
    /\ position = <<>> /\ analyzed = NotRun /\ analyzed_orders = NotRun
    /\ raw_positions = <<>> /\ raw_orders = None /\ analysis = NotRun
    /\ openai_key = None /\ llm = NotRun /\ requests = 0
    /\ suggestions = NotRun
    /\ exchange \in PnlScripts /\ fetched = NotRun
    /\ bybit_key = Str(<<"k","1">>) /\ bybit_secret = Str(<<"s","1">>)
    /\ request = NotRun /\ answer = NotRun /\ served = 0
    /\ chat_id \in ChatIds /\ chat_file = None /\ updates = <<>>
    /\ outbox = <<>> /\ ws = NotRun

NextNotify == HandleWsOrderUpdate

SpecNotify == InitNotify /\ [][NextNotify]_vars

\* TelegramBot.__init__ has loaded the chat from chat_id.txt
InitChat ==
    /\ symbol = <<>> /\ cluster = NotRun
    /\ position = <<>> /\ analyzed = NotRun /\ analyzed_orders = NotRun
    /\ raw_positions = <<>> /\ raw_orders = None /\ analysis = NotRun
    /\ openai_key = None /\ llm = NotRun /\ requests = 0
    /\ suggestions = NotRun
    /\ ApiIdle
    /\ bybit_key = Str(<<"k","1">>) /\ bybit_secret = Str(<<"s","1">>)
    /\ request = NotRun /\ answer = NotRun /\ served = 0
    /\ chat_file \in ChatFiles
    /\ chat_id = load_chat_id(chat_file)
    /\ updates = <<[kind |-> "init", chat |-> load_chat_id(chat_file),
                     written |-> "not_tried"]>>
    /\ outbox = <<>> /\ ws = NotRun

NextChat ==
    \/ Start
    \/ ButtonCallback

SpecChat == InitChat /\ [][NextChat]_vars

\* Application.initialize is about to call post_init on the event loop
InitWs ==
    /\ symbol = <<>> /\ cluster = NotRun
    /\ position = <<>> /\ analyzed = NotRun /\ analyzed_orders = NotRun
    /\ raw_positions = <<>> /\ raw_orders = None /\ analysis = NotRun
    /\ openai_key = None /\ llm = NotRun /\ requests = 0
    /\ suggestions = NotRun
    /\ ApiIdle
    /\ bybit_key = Str(<<"k","1">>) /\ bybit_secret = Str(<<"s","1">>)
    /\ request = NotRun /\ answer = NotRun /\ served = 0
    /\ chat_id = None /\ chat_file = None /\ updates = <<>> /\ outbox = <<>>
    /\ ws = [pc |-> "called", loop_stored |-> FALSE, subscribed |-> FALSE,
             application |-> FALSE, received |-> <<>>, scheduled |-> <<>>,
             handlers |-> <<>>, errors |-> 0]

NextWs ==
    \/ PostInitCreatesClient
    \/ StartStoresLoop
    \/ StartSubscribes
    \/ PostInitStoresApplication
    \/ HandleOrder
    \/ RunOrderHandler

SpecWs == InitWs /\ [][NextWs]_vars

\* the positions or the orders have been fetched and are about to be listed
InitListing ==
    /\ symbol = <<>> /\ cluster = NotRun
    /\ position = <<>> /\ analyzed = NotRun /\ analyzed_orders = NotRun
    /\ raw_positions = <<>> /\ raw_orders = None /\ analysis = NotRun
    /\ openai_key = None /\ llm = NotRun /\ requests = 0
    /\ suggestions = NotRun
    /\ ApiIdle
    /\ bybit_key = Str(<<"k","1">>) /\ bybit_secret = Str(<<"s","1">>)
    /\ request = NotRun /\ answer = NotRun /\ served = 0
    /\ BotIdle

NextListing ==
    \/ SendPositionsList
    \/ SendOrdersList

SpecListing == InitListing /\ [][NextListing]_vars

\* the front ends run without an OpenAI key: the suggestions are rule-based
InitFront ==
    /\ symbol = <<>> /\ cluster = NotRun
    /\ position = <<>> /\ analyzed = NotRun /\ analyzed_orders = NotRun
    /\ raw_positions = <<>> /\ raw_orders = None /\ analysis = NotRun
    /\ openai_key = None /\ llm = NotRun /\ requests = 0
    /\ suggestions = NotRun
    /\ exchange \in Exchanges
    /\ fetched = NotRun
    /\ \E keys \in BybitKeys : bybit_key = keys[1] /\ bybit_secret = keys[2]
    /\ request = NotRun /\ answer = NotRun /\ served = 0
    /\ BotIdle

NextFront ==
    \/ Main
    \/ GetData
    \/ GetTrades
    \/ ShowBalance
    \/ ListPositions
    \/ ListOrders
    \/ TelegramAnalyzePositions
    \/ ShowRecentTrades
    \/ ShowDailyPnl

SpecFront == InitFront /\ [][NextFront]_vars

(***************************************************************************)
(* Properties.                                                             *)
(***************************************************************************)
NumericKeys ==
    {"size", "avgPrice", "markPrice", "liqPrice", "leverage", "unrealisedPnl"}

\* raw values that are no number: the empty string and a word
NotANumber == {Str(<<>>), Str(s_abc)}

\* analyze_position has returned a normalized record
PositionAnalyzed == "liquidation_distance_pct" \in DOMAIN analyzed

\* the position's liqPrice is missing, empty or 0 (as a number or as text)
NoLiqPrice ==
    \/ "liqPrice" \notin DOMAIN position
    \/ position["liqPrice"] \in
           {Str(<<>>), Str(s_0), Str(<<"0",".","0","0">>), Num(Zero)}

\* every numeric field other than liqPrice is missing or holds a number
OtherFieldsNumeric ==
    \A k \in (DOMAIN position \cap NumericKeys) \ {"liqPrice"} :
        position[k] \notin NotANumber

\* C1: for every position whose liqPrice is 0, empty or missing (and whose
\* other numeric fields are numbers), analyze_position returns a record
\* whose liquidation_distance_pct is exactly 100, whatever the mark price,
\* size, side and leverage are.
C1_NoLiqPriceGivesDistance100 ==
    (analyzed # NotRun /\ NoLiqPrice /\ OtherFieldsNumeric)
        => /\ PositionAnalyzed
           /\ analyzed.liquidation_distance_pct = RInt(100)

\* a position with liqPrice "0.00", mark price 100 and leverage 10.01
C1_Witness ==
    /\ PositionAnalyzed
    /\ "liqPrice" \in DOMAIN position
    /\ position["liqPrice"] = Str(<<"0",".","0","0">>)
    /\ "markPrice" \in DOMAIN position
    /\ position["markPrice"] = Str(s_100)
    /\ analyzed.mark_price = RInt(100)
    /\ analyzed.liquidation_distance_pct = RInt(100)

\* the leverage text of the raw position, None when the field is missing
LeverageText ==
    IF "leverage" \in DOMAIN position THEN position["leverage"] ELSE None

\* C2: leverage_risk is exactly one of safe (leverage < 5), medium
\* (5 <= leverage <= 10) and high (leverage > 10) for the position's
\* leverage; 4.99 is safe, 5.0 and 10.0 are medium, 10.01 is high.
C2_LeverageBuckets ==
    PositionAnalyzed =>
        LET lev == analyzed.leverage
            risk == analyzed.leverage_risk
        IN  /\ risk \in {"safe", "medium", "high"}
            /\ (risk = "safe") <=> (lev[1] < 5 * lev[2])
            /\ (risk = "medium") <=> (5 * lev[2] <= lev[1] /\ lev[1] <= 10 * lev[2])
            /\ (risk = "high") <=> (lev[1] > 10 * lev[2])
            /\ LeverageText = Str(<<"4",".","9","9">>) => risk = "safe"
            /\ LeverageText = Str(<<"5",".","0">>) => risk = "medium"
            /\ LeverageText = Str(<<"1","0",".","0">>) => risk = "medium"
            /\ LeverageText = Str(<<"1","0",".","0","1">>) => risk = "high"

\* a position with leverage "10.01" analyzed as high
C2_Witness ==
    /\ PositionAnalyzed
    /\ LeverageText = Str(<<"1","0",".","0","1">>)
    /\ analyzed.leverage = <<1001, 100>>
    /\ analyzed.leverage_risk = "high"

\* analyze_positions has returned an analysis
PortfolioAnalyzed == "portfolio" \in DOMAIN analysis

\* C3: bias is long exactly when long exposure is strictly more than 60% of
\* long + short exposure, short exactly when it is strictly less than 40%,
\* neutral otherwise: at exactly 60%, at exactly 40% and at total exposure 0.
C3_BiasThresholds ==
    PortfolioAnalyzed =>
        LET long == analysis.portfolio.total_long_exposure
            total == RAdd(long, analysis.portfolio.total_short_exposure)
            above60 == RGt(RMul(RInt(100), long), RMul(RInt(60), total))
            below40 == RLt(RMul(RInt(100), long), RMul(RInt(40), total))
            bias == analysis.portfolio.bias
        IN  /\ (bias = "long") <=> above60
            /\ (bias = "short") <=> below40
            /\ (bias = "neutral") <=> (~above60 /\ ~below40)

\* long exposure is exactly 60% of a positive total and the bias is neutral
C3_Witness ==
    /\ PortfolioAnalyzed
    /\ RGt(analysis.portfolio.total_short_exposure, Zero)
    /\ RMul(RInt(10), analysis.portfolio.total_long_exposure)
         = RMul(RInt(6), RAdd(analysis.portfolio.total_long_exposure,
                              analysis.portfolio.total_short_exposure))
    /\ analysis.portfolio.bias = "neutral"

\* C4: categorize_symbol ignores letter case and returns the first cluster
\* in the order BTC, ETH, L2, MEME, AI one of whose keywords occurs in the
\* symbol, OTHER when none does; the earlier cluster wins wherever the
\* keywords stand in the symbol, and ARBUSDT gives L2.
C4_FirstClusterInTableOrder ==
    cluster # NotRun =>
        LET u == StrUpper(symbol)
            expected ==
                IF ClusterMatches(1, u) THEN "BTC"
                ELSE IF ClusterMatches(2, u) THEN "ETH"
                ELSE IF ClusterMatches(3, u) THEN "L2"
                ELSE IF ClusterMatches(4, u) THEN "MEME"
                ELSE IF ClusterMatches(5, u) THEN "AI"
                ELSE "OTHER"
        IN  /\ cluster.returned = expected
            /\ u = s_ARBUSDT => cluster.returned = "L2"
            /\ Contains(u, <<"B","T","C">>) => cluster.returned = "BTC"

\* DogeBTC: the MEME keyword comes first in the symbol, in mixed case, and
\* the BTC cluster, earlier in the table, is returned
C4_Witness ==
    /\ cluster # NotRun
    /\ symbol = <<"D","o","g","e","B","T","C">>
    /\ cluster.returned = "BTC"

\* analyze_with_ai has returned
SuggestionsReturned == "returned" \in DOMAIN suggestions

SuggestionKeys == {"urgent", "recommended", "optional"}

\* C5: each of the three suggestion lists analyze_with_ai returns has at most
\* 4 entries, whichever path (LLM reply or rule-based) produced the result.
C5_AtMostFourEntries ==
    SuggestionsReturned =>
        \A k \in SuggestionKeys \cap DOMAIN suggestions.returned :
            Len(suggestions.returned[k]) <= 4

\* C6: analyze_positions with no positions and no orders (an empty list or
\* None) raises nothing and returns the zeroed record.
C6_EmptyInputGivesZeroedRecord ==
    (analysis # NotRun /\ raw_positions = <<>>
        /\ (raw_orders = None \/ raw_orders = List(<<>>)))
    => analysis =
        [portfolio |-> [total_long_exposure |-> <<0, 1>>,
                        total_short_exposure |-> <<0, 1>>,
                        net_exposure |-> <<0, 1>>,
                        bias |-> "neutral",
                        clusters |-> <<>>,
                        total_positions |-> 0,
                        total_orders |-> 0,
                        total_unrealized_pnl |-> <<0, 1>>],
         positions |-> <<>>,
         orders |-> <<>>,
         risks |-> [highest_risk_position |-> None,
                    high_leverage_count |-> 0,
                    close_liquidation_count |-> 0,
                    total_risk_score |-> <<0, 1>>]]

\* analyze_positions([], None) has returned
C6_Witness ==
    /\ PortfolioAnalyzed
    /\ raw_positions = <<>>
    /\ raw_orders = None
    /\ analysis.portfolio.total_positions = 0
    /\ analysis.risks.highest_risk_position = None

\* 100 * leverage / liquidation_distance_pct
Score(p) == RDiv(RMul(RInt(100), p.leverage), p.liquidation_distance_pct)

AllPositive(ps) ==
    \A i \in 1..Len(ps) :
        /\ RGt(ps[i].liquidation_distance_pct, Zero)
        /\ RGt(ps[i].leverage, Zero)

\* the first index in list order at which the score is maximal
FirstMax(ps) ==
    CHOOSE i \in 1..Len(ps) :
        /\ \A j \in 1..Len(ps) : RLe(Score(ps[j]), Score(ps[i]))
        /\ \A j \in 1..(i - 1) : RLt(Score(ps[j]), Score(ps[i]))

\* C7: when every position has positive liquidation distance and leverage,
\* highest_risk_position is the first position in list order whose score
\* 100 / liquidation_distance_pct * leverage is maximal and total_risk_score
\* is that score; a later position with an equal score never replaces it.
C7_FirstMaximalScoreWins ==
    (PortfolioAnalyzed /\ analysis.positions # <<>>
        /\ AllPositive(analysis.positions))
    => LET ps == analysis.positions
       IN  /\ analysis.risks.highest_risk_position = ps[FirstMax(ps)]
           /\ analysis.risks.total_risk_score = Score(ps[FirstMax(ps)])

\* two different positions with the same, maximal score: the first is kept
C7_Witness ==
    /\ PortfolioAnalyzed
    /\ Len(analysis.positions) >= 2
    /\ AllPositive(analysis.positions)
    /\ analysis.positions[1] # analysis.positions[2]
    /\ Score(analysis.positions[1]) = Score(analysis.positions[2])
    /\ FirstMax(analysis.positions) = 1
    /\ analysis.risks.highest_risk_position = analysis.positions[1]

\* no OpenAI key: the variable is unset, empty or blank
NoOpenAiKey ==
    \/ openai_key = None
    \/ \A i \in 1..Len(openai_key.str) : openai_key.str[i] = " "

\* message contents json.loads cannot parse, fences or not
UnparsableContents ==
    { <<>>, <<Prose>>, <<Fence, JsonTag, Fence>>,
      <<Prose, Json(WantedDocument)>>,
      <<Fence, JsonTag, Prose, Json(WantedDocument), Fence>> }

\* the HTTP call raised or answered an error status, the reply lacks the
\* expected fields, or its content is no valid JSON
LlmFailed ==
    /\ llm # NotRun
    /\ \/ llm.kind \in {"post_raises", "http_error", "body_not_json",
                        "no_content", "content_null"}
       \/ llm.kind = "content" /\ llm.content \in UnparsableContents

\* C8: when no OpenAI key is configured, or the LLM call fails or its reply
\* cannot be parsed, analyze_with_ai raises nothing and returns exactly what
\* _fallback_analysis returns for the same data; without a key no request
\* is made.
C8_FallbackOnFailure ==
    suggestions # NotRun =>
        /\ NoOpenAiKey =>
              /\ requests = 0
              /\ llm = NotRun
              /\ suggestions = [returned |-> fallback_analysis(analysis)]
        /\ LlmFailed =>
              suggestions = [returned |-> fallback_analysis(analysis)]

\* a key is set, the request was made and answered an error status, and the
\* rule-based suggestions for a non-empty portfolio came back
C8_Witness ==
    /\ SuggestionsReturned
    /\ ~NoOpenAiKey
    /\ requests = 1
    /\ llm = [kind |-> "http_error"]
    /\ analysis.positions # <<>>
    /\ suggestions.returned = fallback_analysis(analysis)

\* C9: analyze_position and analyze_orders raise no error for malformed
\* input: with fields missing, or with an empty or non-numeric string in a
\* numeric field, they return a normalized record.
C9_NoErrorForMalformedInput ==
    /\ analyzed # NotRun => PositionAnalyzed
    /\ analyzed_orders # NotRun =>
          /\ "returned" \in DOMAIN analyzed_orders
          /\ Len(analyzed_orders.returned) = Len(raw_orders.list)

\* the output field each raw numeric field is parsed into
OutputField ==
    [size |-> "size", avgPrice |-> "entry_price", markPrice |-> "mark_price",
     liqPrice |-> "liq_price", leverage |-> "leverage",
     unrealisedPnl |-> "unrealized_pnl"]

\* C10 as stated: every missing numeric field is parsed as 0
C10_EveryMissingFieldIsZero ==
    PositionAnalyzed =>
        \A k \in NumericKeys \ DOMAIN position :
            analyzed[OutputField[k]] = <<0, 1>>

\* C10: a missing size, avgPrice, markPrice, liqPrice or unrealisedPnl is
\* parsed as 0 and a missing leverage as 1.
C10_MissingFieldDefaults ==
    PositionAnalyzed =>
        \A k \in NumericKeys \ DOMAIN position :
            analyzed[OutputField[k]] =
                IF k = "leverage" THEN <<1, 1>> ELSE <<0, 1>>

\* the empty record analyzed: leverage 1, size 0
C10_Witness ==
    /\ PositionAnalyzed
    /\ DOMAIN position = {}
    /\ analyzed.leverage = <<1, 1>>
    /\ analyzed.size = <<0, 1>>
    /\ analyzed.liq_price = <<0, 1>>

(***************************************************************************)
(* The analysis record: its keys, counts and sums.                         *)
(***************************************************************************)
\* C14: the analysis carries the fields the tests read: risks has the keys
\* no_stop_loss_count and hedged_symbols and every analyzed position has a
\* stop_loss field, so reading them raises no KeyError.
C14_TestFieldsPresent ==
    PortfolioAnalyzed =>
        /\ "no_stop_loss_count" \in DOMAIN analysis.risks
        /\ "hedged_symbols" \in DOMAIN analysis.risks
        /\ \A i \in 1..Len(analysis.positions) :
               "stop_loss" \in DOMAIN analysis.positions[i]

\* len(raw_orders), 0 for None
OrderCount == IF raw_orders = None THEN 0 ELSE Len(raw_orders.list)

C17_ClusterPercentagesSumTo100 ==
    PortfolioAnalyzed =>
        LET total == RAdd(analysis.portfolio.total_long_exposure,
                          analysis.portfolio.total_short_exposure)
            clusters == analysis.portfolio.clusters
        IN  /\ RGt(total, Zero) =>
                  /\ \A i \in 1..Len(clusters) :
                         /\ RLe(Zero, clusters[i][2])
                         /\ RLe(clusters[i][2], RInt(100))
                  /\ RSum([i \in 1..Len(clusters) |-> clusters[i][2]]) = RInt(100)
            /\ total = Zero => clusters = <<>>

\* side as analyze_position reads it from the raw record
RawSide(pos) == StrLower(Get(pos, "side", Str(<<>>)).str)

\* the exposures of the analyzed positions whose raw side, lower-cased, is side
ExposuresOfSide(side) ==
    [i \in 1..Len(raw_positions) |->
        IF RawSide(raw_positions[i]) = side
        THEN analysis.positions[i].exposure_usdt ELSE Zero]

\* C18: exposure_usdt is |size * mark price| and never negative;
\* total_long_exposure sums the exposures of the positions whose side is
\* Buy in any letter case, total_short_exposure those whose side is Sell,
\* net_exposure is long minus short and total_unrealized_pnl is the sum of
\* the positions' unrealized PnL.
C18_ExposureSums ==
    PortfolioAnalyzed =>
        LET ps == analysis.positions
            pf == analysis.portfolio
        IN  /\ \A i \in 1..Len(ps) :
                   /\ ps[i].exposure_usdt[1] >= 0
                   /\ ps[i].exposure_usdt[1] * ps[i].size[2] * ps[i].mark_price[2]
                        = Abs(ps[i].size[1] * ps[i].mark_price[1])
                            * ps[i].exposure_usdt[2]
            /\ pf.total_long_exposure = RSum(ExposuresOfSide(<<"b","u","y">>))
            /\ pf.total_short_exposure = RSum(ExposuresOfSide(<<"s","e","l","l">>))
            /\ RAdd(pf.net_exposure, pf.total_short_exposure) = pf.total_long_exposure
            /\ pf.total_unrealized_pnl =
                   RSum([i \in 1..Len(ps) |->
                            Float(Get(raw_positions[i], "unrealisedPnl", Num(Zero)))])

\* a long written BUY, a short of negative size and a position without a
\* side: long 200, short 300, net -100
C18_Witness ==
    /\ PortfolioAnalyzed
    /\ Len(raw_positions) = 3
    /\ Get(raw_positions[1], "side", None) = Str(<<"B","U","Y">>)
    /\ analysis.positions[2].size = <<-3, 1>>
    /\ analysis.positions[2].exposure_usdt = <<300, 1>>
    /\ "side" \notin DOMAIN raw_positions[3]
    /\ analysis.portfolio.total_long_exposure = <<200, 1>>
    /\ analysis.portfolio.total_short_exposure = <<300, 1>>
    /\ analysis.portfolio.net_exposure = <<-100, 1>>
    /\ analysis.portfolio.total_unrealized_pnl = <<45, 1>>

(***************************************************************************)
(* The rule-based urgent list and the shape of the suggestions.            *)
(***************************************************************************)
\* indices of the positions within 10% of liquidation / with leverage > 10
CloseIdx(ps) ==
    {i \in 1..Len(ps) :
        ps[i].liquidation_distance_pct[1] < 10 * ps[i].liquidation_distance_pct[2]}
HighIdx(ps) ==
    {i \in 1..Len(ps) : ps[i].leverage[1] > 10 * ps[i].leverage[2]}

\* the k-th smallest element of a set of indices
Nth(S, k) == CHOOSE i \in S : Cardinality({j \in S : j < i}) = k - 1

Min(a, b) == IF a < b THEN a ELSE b

IsLeverageWarning(sug) ==
    sug.template = "Reduce leverage on {symbol} (currently {leverage:.1f}x)"
IsLiquidationWarning(sug) ==
    sug.template =
        "Add collateral or reduce {symbol} {side} position ({pct:.2f}% from liquidation)"

\* C19: the rule-based urgent list is the first 4 entries of: one warning
\* per position within 10% of liquidation, in input order, then one leverage
\* warning for each of the first two positions with leverage > 10, in input
\* order; at most 2 leverage warnings appear, and none when 4 or more
\* positions are within 10% of liquidation.
C19_UrgentList ==
    (PortfolioAnalyzed /\ SuggestionsReturned) =>
        LET ps == analysis.positions
            u == suggestions.returned.urgent
            nc == Cardinality(CloseIdx(ps))
            nl == Min(Cardinality(HighIdx(ps)), 2)
        IN  /\ Len(u) = Min(4, nc + nl)
            /\ \A k \in 1..Len(u) :
                   IF k <= nc
                   THEN /\ IsLiquidationWarning(u[k])
                        /\ u[k].symbol = ps[Nth(CloseIdx(ps), k)].symbol
                        /\ u[k].pct =
                               Fixed(ps[Nth(CloseIdx(ps), k)].liquidation_distance_pct, 2)
                   ELSE /\ IsLeverageWarning(u[k])
                        /\ u[k].symbol = ps[Nth(HighIdx(ps), k - nc)].symbol
                        /\ u[k].leverage =
                               Fixed(ps[Nth(HighIdx(ps), k - nc)].leverage, 1)
            /\ Cardinality({k \in 1..Len(u) : IsLeverageWarning(u[k])}) <= 2
            /\ nc >= 4 => \A k \in 1..Len(u) : ~IsLeverageWarning(u[k])

\* four positions, three of them with leverage > 10 and two within 10% of
\* liquidation: two liquidation warnings, then the first two leverage ones
C19_Witness ==
    /\ PortfolioAnalyzed /\ SuggestionsReturned
    /\ Len(analysis.positions) = 4
    /\ Cardinality(HighIdx(analysis.positions)) = 3
    /\ Cardinality(CloseIdx(analysis.positions)) = 2
    /\ Len(suggestions.returned.urgent) = 4
    /\ IsLiquidationWarning(suggestions.returned.urgent[2])
    /\ IsLeverageWarning(suggestions.returned.urgent[3])
    /\ IsLeverageWarning(suggestions.returned.urgent[4])
    /\ suggestions.returned.urgent[3].symbol = analysis.positions[1].symbol
    /\ analysis.positions[1].leverage = <<25, 1>>

\* C20: whatever the analysis and whatever the LLM call does, analyze_with_ai
\* returns a record with exactly the keys urgent, recommended and optional,
\* each a list of suggestion texts; a reply that is valid JSON of another
\* shape never reaches the caller.
C20_ResultHasThreeLists ==
    suggestions # NotRun =>
        /\ SuggestionsReturned
        /\ DOMAIN suggestions.returned = SuggestionKeys
        /\ \A k \in SuggestionKeys :
               \A i \in 1..Len(suggestions.returned[k]) :
                   "template" \in DOMAIN suggestions.returned[k][i]

(***************************************************************************)
(* The exchange client.                                                    *)
(***************************************************************************)
\* the request met a transport failure, an error status, a body that is no
\* JSON, or a body whose retCode is not the number 0
FailedReply(reply) ==
    IF reply.kind = "json"
    THEN ~("retCode" \in DOMAIN reply.data /\ reply.data["retCode"] = Num(Zero))
    ELSE TRUE

FetchContext ==
    [get_positions |-> "Failed to fetch positions: {e}",
     get_open_orders |-> "Failed to fetch open orders: {e}",
     get_conditional_orders |-> "Failed to fetch conditional orders: {e}",
     get_recent_trades |-> "Failed to fetch recent trades: {e}",
     get_todays_trades |-> "Failed to fetch today's trades: {e}",
     get_closed_pnl |-> "Failed to fetch closed PnL: {e}",
     get_wallet_balance |-> "Failed to fetch wallet balance: {e}"]

\* the functions that follow nextPageCursor
Paginated ==
    {"get_positions", "get_open_orders", "get_conditional_orders",
     "get_todays_trades"}

\* the page names a next one
NamesNextPage(reply) ==
    /\ "result" \in DOMAIN reply.data
    /\ "nextPageCursor" \in DOMAIN reply.data["result"]
    /\ reply.data["result"]["nextPageCursor"] # Str(<<>>)

\* the number of answers of the script the call reads
RepliesRead ==
    IF fetched.fn \in Paginated
    THEN CHOOSE k \in 1..Len(exchange) :
            /\ FailedReply(exchange[k]) \/ ~NamesNextPage(exchange[k])
                   \/ k = Len(exchange)
            /\ \A j \in 1..(k - 1) :
                   ~FailedReply(exchange[j]) /\ NamesNextPage(exchange[j])
    ELSE 1

\* C12: signed_request returns the response only when the HTTP call
\* succeeded and retCode is 0, and raises on any other retCode and on a
\* network failure; the fetch function that met the failure, on the first
\* page or on a later one, raises an exception whose message starts with
\* its Failed to fetch context and returns no partial list.
C12_FetchFailureRaises ==
    fetched # NotRun =>
        IF fetched.fn = "signed_request"
        THEN /\ "returned" \in DOMAIN fetched.outcome =>
                    /\ ~FailedReply(exchange[1])
                    /\ fetched.outcome.returned = exchange[1].data
             /\ FailedReply(exchange[1]) => Raised(fetched.outcome)
             /\ (~FailedReply(exchange[1])
                    /\ StrUpper(fetched.method) \in {s_GET, s_POST})
                => "returned" \in DOMAIN fetched.outcome
        ELSE /\ (\E k \in 1..RepliesRead : FailedReply(exchange[k])) =>
                    /\ Raised(fetched.outcome)
                    /\ "returned" \notin DOMAIN fetched.outcome
             /\ Raised(fetched.outcome) =>
                    /\ fetched.outcome.raised = "Exception"
                    /\ fetched.outcome.message.text = FetchContext[fetched.fn]

\* get_positions read a first page holding an open position and met retCode
\* 10001 on the second: it raised, with both contexts in the message
C12_Witness ==
    /\ fetched # NotRun
    /\ fetched.fn = "get_positions"
    /\ Len(exchange) = 2
    /\ exchange[1] = Page(<<OpenPosition>>, Str(<<"c","1">>))
    /\ exchange[2] = ErrorBody(Num(RInt(10001)))
    /\ Raised(fetched.outcome)
    /\ fetched.outcome.message.text = "Failed to fetch positions: {e}"
    /\ fetched.outcome.message.e.text = "Bybit API error: {retMsg} (code: {retCode})"
    /\ fetched.outcome.message.e.retCode = Num(RInt(10001))

(***************************************************************************)
(* The front ends.                                                         *)
(***************************************************************************)
CliServed == request # NotRun /\ request.front = "cli"

\* C11: main returns only 0 or 1: 1 when no subcommand is given or the
\* subcommand is unknown, 0 for help, --help and -h, and for list, orders
\* and analyze the result of the command, the subcommand being matched
\* whatever its case.
C11_MainExitCodes ==
    CliServed =>
        /\ answer.exit \in {0, 1}
        /\ IF Len(request.argv) < 2 THEN answer.exit = 1
           ELSE LET word == StrLower(request.argv[2])
                IN  CASE word = s_list ->
                           answer = list_positions_command(
                                        bybit_key, bybit_secret, exchange).answer
                      [] word = s_orders ->
                           answer = orders_command(
                                        bybit_key, bybit_secret, exchange).answer
                      [] word = s_analyze ->
                           answer = analyze_command(bybit_key, bybit_secret,
                                                    openai_key, exchange).answer
                      [] word \in HelpWords -> answer.exit = 0
                      [] OTHER -> answer.exit = 1

\* bot.py LIST listed the open positions and returned 0
C11_Witness ==
    /\ CliServed
    /\ request.argv = <<s_bot, <<"L","I","S","T">>>>
    /\ answer.exit = 0
    /\ answer.printed = "table"

\* C13: an exception raised by an exchange fetch or by the analysis inside
\* a handler never leaves it: the CLI command returns 1, the HTTP endpoint
\* answers status 500 with the error text, the chat-bot handler replaces
\* the progress message with an error message.
C13_HandlersReportErrors ==
    (request # NotRun /\ request.raised # <<>>) =>
        CASE request.front = "cli" ->
                answer.exit = 1 /\ answer.printed = "error"
          [] request.front = "http" ->
                /\ answer.status = 500
                /\ answer.detail = ErrorText(request.raised[1])
          [] request.front = "telegram" ->
                /\ answer.message = "error"
                /\ answer.text = ErrorText(request.raised[1])

\* C29: whenever at least one position is supplied, highest_risk_position
\* is one of the supplied positions, never None, and total_risk_score is
\* greater than 0, a position at its liquidation price or with leverage 0
\* included.
C29_HighestRiskAlwaysFound ==
    (PortfolioAnalyzed /\ analysis.positions # <<>>) =>
        /\ \E i \in 1..Len(analysis.positions) :
               analysis.risks.highest_risk_position = analysis.positions[i]
        /\ RGt(analysis.risks.total_risk_score, Zero)

\* the key or the secret is missing or blank
ConfigMissing ==
    \/ bybit_key = None \/ Strip(bybit_key.str) = <<>>
    \/ bybit_secret = None \/ Strip(bybit_secret.str) = <<>>

\* a list, orders or analyze command was served
CommandServed ==
    /\ CliServed
    /\ Len(request.argv) >= 2
    /\ StrLower(request.argv[2]) \in {s_list, s_orders, s_analyze}

\* the list the command fetched is empty
FetchedNothing ==
    LET out == IF StrLower(request.argv[2]) = s_orders
               THEN get_open_orders(exchange.orders)
               ELSE get_positions(exchange.positions)
    IN  ~Raised(out) /\ out.returned = <<>>

FetchSteps == {"get_positions", "get_open_orders"}
StepsOf(names) == {i \in 1..Len(request.steps) : request.steps[i] \in names}

\* C28: list, orders and analyze validate the configuration before any
\* exchange call: with the key or the secret missing or blank they return 1
\* and call no fetch function; with a valid configuration and an empty list
\* they return 0 without running the analysis.
C28_ValidateBeforeFetch ==
    CommandServed =>
        /\ request.steps # <<>> /\ request.steps[1] = "validate"
        /\ ConfigMissing => answer.exit = 1 /\ StepsOf(FetchSteps) = {}
        /\ (~ConfigMissing /\ FetchedNothing) =>
               /\ answer.exit = 0
               /\ StepsOf({"analyze_positions", "analyze_with_ai"}) = {}

\* bot.py list with a blank key: exit 1 after validate alone
C28_Witness ==
    /\ CommandServed
    /\ StrLower(request.argv[2]) = s_list
    /\ bybit_key = Str(<<" "," ">>)
    /\ answer.exit = 1
    /\ request.steps = <<"validate">>

(***************************************************************************)
(* The pagination loops.                                                   *)
(***************************************************************************)
PagesCall == fetched # NotRun /\ "pc" \in DOMAIN fetched
PagesDone == PagesCall /\ fetched.pc = "done"

\* the answers read so far, in the order they were read
PagesRead ==
    [k \in 1..(IF exchange.endless THEN 1 ELSE fetched.page - 1) |->
        exchange.replies[k]]

\* the items of the pages read, in page order
RECURSIVE ItemsOf(_)
ItemsOf(pages) ==
    IF pages = <<>> THEN <<>>
    ELSE ItemsOf(SubSeq(pages, 1, Len(pages) - 1))
         \o pages[Len(pages)].data.result.list

\* C21: get_positions, get_open_orders and get_conditional_orders send the
\* first request without a cursor and every later request with the
\* nextPageCursor of the page before it, stop at the first page whose
\* cursor is empty or absent, and return the items of all the pages read in
\* page order, get_positions keeping the entries of size above zero; they
\* come to an end whenever the exchange comes to a page without a cursor.
C21_CursorFollowed ==
    /\ [](  (/\ PagesCall
             /\ fetched.fn # "get_todays_trades"
             /\ ~exchange.endless
             /\ fetched.param # NotRun)
          => LET n == fetched.page - 1
             IN  /\ fetched.param =
                       (IF n = 1 THEN None
                        ELSE exchange.replies[n - 1].data.result.nextPageCursor)
                 /\ \A k \in 1..(n - 1) : NamesNextPage(exchange.replies[k])
                 /\ fetched.pc = "loop" => NamesNextPage(exchange.replies[n])
                 /\ (fetched.pc = "done" /\ ~Raised(fetched.outcome)) =>
                       /\ ~NamesNextPage(exchange.replies[n])
                       /\ fetched.outcome.returned =
                             (IF fetched.fn = "get_positions"
                              THEN SelectSeq(ItemsOf(PagesRead),
                                       LAMBDA pos :
                                           /\ "size" \in DOMAIN pos
                                           /\ RGt(Float(pos.size), Zero))
                              ELSE ItemsOf(PagesRead)))
    /\ (fetched.fn # "get_todays_trades" /\ ~exchange.endless) ~> PagesDone

\* get_positions read two pages and returned the open positions of both
C21_Witness ==
    /\ PagesDone
    /\ fetched.fn = "get_positions"
    /\ fetched.page = 3
    /\ fetched.param = CursorOf(1)
    /\ ~Raised(fetched.outcome)
    /\ Len(fetched.outcome.returned) = 2


\* C22: get_todays_trades comes to an end after a bounded number of page
\* requests whatever the exchange answers, an exchange that names a next
\* page for ever included, and what it returns holds no Funding execution
\* and is ordered by execTime, the newest first.
C22_TodaysTradesEnd ==
    /\ (PagesCall /\ fetched.fn = "get_todays_trades") ~> PagesDone
    /\ []((/\ PagesDone
           /\ fetched.fn = "get_todays_trades"
           /\ ~Raised(fetched.outcome))
          => LET trades == fetched.outcome.returned
             IN  /\ \A i \in 1..Len(trades) : 
                        Get(trades[i], "execType", None) # Str(s_Funding)
                 /\ \A i \in 1..(Len(trades) - 1) :
                        ExecTime(trades[i]) >= ExecTime(trades[i + 1]))

\* the safety limit ended the loop against full pages that never end
TodaysTradesLimited ==
    /\ PagesDone
    /\ fetched.fn = "get_todays_trades"
    /\ exchange = EndlessFull
    /\ Len(fetched.all) > TradeSafetyLimit

(***************************************************************************)
(* The signature.                                                          *)
(***************************************************************************)
SignedGet ==
    /\ fetched # NotRun
    /\ fetched.fn = "signed_request"
    /\ "sent" \in DOMAIN fetched
    /\ StrUpper(fetched.method) = s_GET

\* the k=v pairs of a set of items, the keys in ascending order, joined
\* with '&'
CanonicalQuery(items) ==
    LET place(it) == 1 + Cardinality({o \in items : StrLess(o[1], it[1])})
        ordered == [i \in 1..Cardinality(items) |->
                       CHOOSE it \in items : place(it) = i]
    IN  join_query(ordered)

\* C23: for a GET, signed_request signs the timestamp, the API key, the
\* receive window and the canonical query string, the parameters in the
\* order of their keys written k=v and joined with '&'; what is signed
\* depends on the parameters only and not on the order they were inserted
\* in, the query string of the URL is the signed one, and the
\* X-BAPI-TIMESTAMP and X-BAPI-RECV-WINDOW headers carry the values signed.
C23_SignedQueryCanonical ==
    SignedGet =>
        LET sent == fetched.sent
            canonical ==
                CanonicalQuery({fetched.params[i] : i \in 1..Len(fetched.params)})
        IN  /\ sent.headers.sign.hmac_sha256.msg =
                  sent.headers.timestamp \o Format(bybit_key)
                  \o sent.headers.recv_window \o canonical
            /\ sent.headers.timestamp = IntStr(fetched.now_ms)
            /\ sent.headers.recv_window = IntStr(RecvWindow)
            /\ sent.url = BaseUrl \o Endpoint
                          \o (IF canonical = <<>> THEN <<>>
                              ELSE <<"?">> \o canonical)

\* three parameters inserted out of order were signed in the order of
\* their keys
C23_Witness ==
    /\ SignedGet
    /\ Len(fetched.params) = 3
    /\ fetched.params # sorted(fetched.params)
    /\ fetched.sent.url =
          BaseUrl \o Endpoint \o <<"?">> \o join_query(sorted(fetched.params))

(***************************************************************************)
(* The order notifications.                                                *)
(***************************************************************************)
OrderUpdateHandled ==
    request # NotRun /\ request.handler = "handle_ws_order_update"

UpdateData == Get(request.message, "data", <<>>)

\* the events of the outbox of one kind
EventsOf(kind) == SelectSeq(outbox, LAMBDA e : e.event = kind)

\* the places in data of the orders with a status that is notified
RECURSIVE DueFrom(_)
DueFrom(i) ==
    IF i > Len(UpdateData) THEN <<>>
    ELSE (IF Get(UpdateData[i], "orderStatus", s_NA) \in SignificantStatuses
          THEN <<i>> ELSE <<>>) \o DueFrom(i + 1)

\* C24: handle_ws_order_update sends one notification for each order of
\* data whose orderStatus is New, PartiallyFilled, Filled, Cancelled or
\* Rejected, in the order of data, and none for another status; a failure
\* while one order is handled does not keep the later orders from being
\* notified; without a chat_id nothing is sent.
C24_OneNotificationPerOrder ==
    OrderUpdateHandled =>
        LET sends == EventsOf("send_message")
            due == DueFrom(1)
        IN  IF NoChat(chat_id) THEN outbox = <<>>
            ELSE /\ Len(sends) = Len(due)
                 /\ \A k \in 1..Len(due) : sends[k].order = due[k]

\* the lookup made for order i found nothing: the call raised, or no
\* record has the order id
LookupFailed(i) ==
    LET closed_pnl_list == get_closed_pnl(exchange)
    IN  \/ Raised(closed_pnl_list)
        \/ \A k \in 1..Len(closed_pnl_list.returned) :
               Get(closed_pnl_list.returned[k], "orderId", None)
                   # Get(UpdateData[i], "orderId", None)

\* C25: when the closed-PnL lookup made for a Filled order raises or finds
\* no record with the order id, the notification of the order is still
\* sent, once, after the lookup and without a realized-PnL line.
C25_LookupFailureKeepsNotification ==
    OrderUpdateHandled =>
        \A l \in 1..Len(outbox) :
            (outbox[l].event = "get_closed_pnl" /\ LookupFailed(outbox[l].order))
            => /\ Cardinality({s \in 1..Len(outbox) :
                                  /\ outbox[s].event = "send_message"
                                  /\ outbox[s].order = outbox[l].order}) = 1
               /\ \E s \in (l + 1)..Len(outbox) :
                      /\ outbox[s].event = "send_message"
                      /\ outbox[s].order = outbox[l].order
                      /\ outbox[s].status = s_Filled
                      /\ outbox[s].pnl = None

\* a Filled order was notified without a PnL line while the exchange was
\* out of reach, after a cancelled one
C25_Witness ==
    /\ OrderUpdateHandled
    /\ exchange = NetworkDown
    /\ Len(outbox) = 3
    /\ outbox[1].event = "send_message"
    /\ outbox[2].event = "get_closed_pnl"
    /\ outbox[3].event = "send_message" /\ outbox[3].pnl = None
    /\ outbox[3].status = s_Filled

(***************************************************************************)
(* The cached chat.                                                        *)
(***************************************************************************)
\* the places in updates of the saves that were written, of one kind
WrittenBy(kind) ==
    {k \in 1..Len(updates) : updates[k].kind = kind /\ updates[k].written = "ok"}

Latest(places) == CHOOSE k \in places : \A j \in places : j <= k
Earliest(places) == CHOOSE k \in places : \A j \in places : k <= j

\* C26: after any sequence of /start commands and button presses chat_id
\* is the chat of the latest /start, when there was one, otherwise the
\* chat loaded from the file at startup, otherwise the chat of the first
\* button press, a save whose write fails counting for nothing; a button
\* press never replaces a chat_id that is set; chat_id is always the last
\* value written to the file with success, or the value loaded.
C26_ChatIdFollowsStart ==
    /\ [](updates # <<>> =>
            /\ chat_id =
                  (IF WrittenBy("start") # {}
                   THEN updates[Latest(WrittenBy("start"))].chat
                   ELSE IF updates[1].chat # None THEN updates[1].chat
                   ELSE IF WrittenBy("button") # {}
                   THEN updates[Earliest(WrittenBy("button"))].chat
                   ELSE None)
            /\ LET written == WrittenBy("start") \cup WrittenBy("button")
               IN  chat_id = (IF written = {} THEN updates[1].chat
                              ELSE updates[Latest(written)].chat)
            /\ updates[Len(updates)].written = "ok" =>
                   load_chat_id(chat_file) = chat_id)
    /\ [][(updates # <<>> /\ chat_id # None /\ updates' # updates
           /\ updates'[Len(updates')].kind = "button") => chat_id' = chat_id]_vars

\* a failed save of /start left the chat a button press had saved, and a
\* later /start replaced it
C26_Witness ==
    /\ Len(updates) = 4
    /\ updates[1].chat = None
    /\ updates[2].kind = "button" /\ updates[2].written = "ok"
    /\ updates[3].kind = "start" /\ updates[3].written = "write_fails"
    /\ updates[3].chat # updates[2].chat
    /\ updates[4].kind = "start" /\ updates[4].written = "ok"
    /\ chat_id = updates[4].chat

(***************************************************************************)
(* The order stream.                                                       *)
(***************************************************************************)
StreamRuns == ws # NotRun

\* C27: the order stream is subscribed only after the event loop of the
\* bot has been stored; every message handle_order receives is handed to
\* that loop by a thread-safe scheduling call and its handler never runs
\* on the thread of the socket; under every interleaving no order-update
\* handler starts before post_init has stored the application.
C27_HandlersAfterPostInit ==
    StreamRuns =>
        /\ ws.subscribed => ws.loop_stored
        /\ ws.errors = 0
        /\ ws.received =
              [k \in 1..Len(ws.handlers) |-> ws.handlers[k].message]
              \o ws.scheduled
        /\ \A k \in 1..Len(ws.handlers) :
              /\ ws.handlers[k].thread = "loop"
              /\ ws.handlers[k].application

\* two handlers have started on the loop, for different messages, and a
\* third message waits on it
C27_Witness ==
    /\ StreamRuns
    /\ Len(ws.handlers) = 2
    /\ Len(ws.scheduled) = 1
    /\ ws.handlers[1].message # ws.handlers[2].message

\* a message is waiting on the loop while post_init still runs
ScheduledDuringPostInit ==
    StreamRuns /\ ws.pc = "subscribed" /\ ws.scheduled # <<>>

(***************************************************************************)
(* The listings of the chat bot.                                           *)
(***************************************************************************)
ListingSent ==
    /\ request # NotRun
    /\ request.front = "telegram"
    /\ "text" \in DOMAIN request

\* the texts of the messages sent, one after the other
RECURSIVE TextsOf(_)
TextsOf(messages) ==
    IF messages = <<>> THEN <<>>
    ELSE messages[1].text \o TextsOf(Tail(messages))

\* C30: the messages list_positions and list_orders send for one request
\* hold the header, every entry and, for the positions, the footer, each
\* once and in order: put together they are the text that was not cut; no
\* message is longer than 4000 characters as long as no single entry is;
\* the navigation keyboard comes with the last message only.
C30_ListingSplit ==
    ListingSent =>
        /\ TextsOf(outbox) = request.text
        /\ (\A k \in 1..Len(request.text) : request.text[k].len <= MessageLimit)
           => \A m \in 1..Len(outbox) : TextLen(outbox[m].text) <= MessageLimit
        /\ \A m \in 1..Len(outbox) : outbox[m].keyboard <=> m = Len(outbox)

\* three positions went out in three messages, the footer with the last
C30_Witness ==
    /\ ListingSent
    /\ request.handler = "list_positions"
    /\ Len(request.text) = 5
    /\ \A k \in 1..5 : request.text[k].len <= MessageLimit
    /\ Len(outbox) = 3
    /\ Len(outbox[3].text) = 2

====
